---- MODULE Spec2Model ----
(***************************************************************************)
(* Model of the YouTube subtitle translator of the extension               *)
(* (YouTubeSubtitleTranslator, src/unnamed/part_011): the cue store, the   *)
(* translation map, the progress counters, track discovery and loading,    *)
(* the staged ASR pipeline (re-segment + batch translation), the plain     *)
(* per-cue pipeline, and the translation port with its pending tables.     *)
(*                                                                         *)
(* Strings are sequences of one-character strings, " " being whitespace.   *)
(* Cue indices are 0-based as in the source; the sequence holding the cues *)
(* is 1-based, so cue i is cues[i + 1].                                    *)
(***************************************************************************)
EXTENDS Integers, Sequences, FiniteSets, TLC

\* ------------------------------------------------------------------ bounds
\* Number of async call chains (discovery -> track load -> pipeline run)
\* that are ever started.
MaxTasks == 2
\* Longest sentence list a re-segment reply carries in the single-run
\* specification.
MaxSentences == 2
\* Largest cue count and stage size given to the stage windower on its own.
MaxTotalCues == 7
MaxStageSize == 4
\* Longest cue list and latest time given to findCueByTime on its own.
MaxCues == 4
MaxTime == 5

\* Stage size and sub-batch size. The shipped values (24 items per
\* sub-batch) are scaled down so that a 5-cue track has several stages and
\* a stage several sub-batches.
RESEGMENT_BATCH_SIZE == 3
DEFAULT_SUBTITLE_BATCH_SIZE == 2

\* --------------------------------------------------------- program constants
\* handleTrackPayload: cues.length >= 5 selects the staged ASR pipeline.
MIN_ASR_CUES == 5
\* initialize(): Math.max(2, config.subtitleContextWindow), at its minimum.
contextWindow == 2

\* ------------------------------------------------------------------ helpers
None == "none"

Min(a, b) == IF a < b THEN a ELSE b
Max(a, b) == IF a > b THEN a ELSE b

RECURSIVE SumSeq(_)
SumSeq(s) == IF s = <<>> THEN 0 ELSE Head(s) + SumSeq(Tail(s))

RECURSIVE JoinWith(_, _)
\* Array.prototype.join(" ") on strings.
JoinWith(texts, sep) ==
    IF texts = <<>> THEN <<>>
    ELSE IF Len(texts) = 1 THEN texts[1]
    ELSE texts[1] \o sep \o JoinWith(Tail(texts), sep)

SelectNonEmpty(texts) == SelectSeq(texts, LAMBDA t : t # <<>>)

RECURSIVE NormalizeFrom(_, _, _)
NormalizeFrom(s, i, acc) ==
    IF i > Len(s)
    THEN IF acc # <<>> /\ acc[Len(acc)] = " "
         THEN SubSeq(acc, 1, Len(acc) - 1) ELSE acc
    ELSE IF s[i] = " "
         THEN IF acc = <<>> \/ acc[Len(acc)] = " "
              THEN NormalizeFrom(s, i + 1, acc)
              ELSE NormalizeFrom(s, i + 1, Append(acc, " "))
         ELSE NormalizeFrom(s, i + 1, Append(acc, s[i]))

\* text.replace(/\s+/g, " ").trim()
NormalizeText(s) == NormalizeFrom(s, 1, <<>>)

\* ------------------------------------------------- asr-resegment (windower)
\* buildStageWindowsByPlayback(totalCues, stageSize, currentIndex)
\* Variant: a window reaches one cue into the next one.
WindowAt_Overlap(i, totalCues, size) ==
    [start |-> i * size, end |-> Min(totalCues, (i + 1) * size + 1)]

WindowAt(i, totalCues, size) ==
    [start |-> i * size, end |-> Min(totalCues, (i + 1) * size)]

\* Variant: the windows are returned in timeline order.
buildStageWindows_Unrotated(totalCues, stageSize, currentIndex) ==
    LET size == Max(1, stageSize)
        n == IF totalCues <= 0 THEN 0 ELSE (totalCues + size - 1) \div size
    IN  [i \in 1..n |-> WindowAt(i - 1, totalCues, size)]

\* Variant: the current index is used as given.
buildStageWindows_Unclamped(totalCues, stageSize, currentIndex) ==
    LET size == Max(1, stageSize)
        n == IF totalCues <= 0 THEN 0 ELSE (totalCues + size - 1) \div size
        windows == [i \in 1..n |-> WindowAt(i - 1, totalCues, size)]
        currentWindowIndex == currentIndex \div size
    IN  IF n <= 1 THEN windows
        ELSE [i \in 1..n |-> windows[((i - 1 + currentWindowIndex) % n) + 1]]

buildStageWindowsByPlayback(totalCues, stageSize, currentIndex) ==
    LET size == Max(1, stageSize)
        n == IF totalCues <= 0 THEN 0 ELSE (totalCues + size - 1) \div size
        windows == [i \in 1..n |-> WindowAt(i - 1, totalCues, size)]
        clamped == Max(0, Min(currentIndex, totalCues - 1))
        currentWindowIndex == clamped \div size
    IN  IF n <= 1 THEN windows
        ELSE [i \in 1..n |-> windows[((i - 1 + currentWindowIndex) % n) + 1]]

\* ---------------------------------------------- asr-resegment (re-segmenter)
\* Unit count of a normalized text: whitespace-delimited tokens when it
\* contains whitespace, character length otherwise.
UnitCount(text) ==
    LET spaces == Cardinality({i \in 1..Len(text) : text[i] = " "})
    IN  IF spaces > 0 THEN spaces + 1 ELSE Len(text)

\* Variant: the fallback is a single range over the whole slice.
IdentityRanges_OneRange(cueTexts) ==
    IF cueTexts = <<>> THEN <<>>
    ELSE << [startIndex |-> 0, endIndex |-> Len(cueTexts) - 1,
             text |-> JoinWith(cueTexts, <<" ">>)] >>

IdentityRanges(cueTexts) ==
    [i \in 1..Len(cueTexts) |->
        [startIndex |-> i - 1, endIndex |-> i - 1, text |-> cueTexts[i]]]

RECURSIVE AccumulateEnd(_, _, _, _)
\* Variant: accumulation stops only once the count exceeds the target.
AccumulateEnd_Exceeds(cueTexts, pointer, acc, target) ==
    LET now == acc + UnitCount(cueTexts[pointer + 1])
    IN  IF now > target \/ pointer + 1 >= Len(cueTexts) THEN pointer
        ELSE AccumulateEnd(cueTexts, pointer + 1, now, target)

\* Index (0-based) at which the unit counts accumulated from `pointer`
\* reach `target`; the last fragment when they never do.
AccumulateEnd(cueTexts, pointer, acc, target) ==
    LET now == acc + UnitCount(cueTexts[pointer + 1])
    IN  IF now >= target \/ pointer + 1 >= Len(cueTexts) THEN pointer
        ELSE AccumulateEnd(cueTexts, pointer + 1, now, target)

RECURSIVE AlignWalk(_, _, _, _)
\* Variant: the pointer is left on the last fragment of the range.
AlignWalk_NoAdvance(sentences, cueTexts, pointer, out) ==
    IF sentences = <<>> \/ pointer >= Len(cueTexts) THEN out
    ELSE LET sentence == Head(sentences)
             target == Max(1, UnitCount(sentence))
             endIndex == AccumulateEnd(cueTexts, pointer, 0, target)
         IN  AlignWalk(Tail(sentences), cueTexts, endIndex,
                       Append(out, [startIndex |-> pointer,
                                    endIndex |-> endIndex,
                                    text |-> sentence]))

AlignWalk(sentences, cueTexts, pointer, out) ==
    IF sentences = <<>> \/ pointer >= Len(cueTexts) THEN out
    ELSE LET sentence == Head(sentences)
             target == Max(1, UnitCount(sentence))
             endIndex == AccumulateEnd(cueTexts, pointer, 0, target)
         IN  AlignWalk(Tail(sentences), cueTexts, endIndex + 1,
                       Append(out, [startIndex |-> pointer,
                                    endIndex |-> endIndex,
                                    text |-> sentence]))

\* Variant: leftover fragments are dropped.
MergeLeftover_Drop(ranges, cueTexts) == ranges

\* Leftover fragments are merged into the last emitted range.
MergeLeftover(ranges, cueTexts) ==
    IF ranges = <<>> THEN ranges
    ELSE LET last == ranges[Len(ranges)]
             n == Len(cueTexts)
         IN  IF last.endIndex >= n - 1 THEN ranges
             ELSE LET leftover == SelectNonEmpty(SubSeq(cueTexts, last.endIndex + 2, n))
                      text == JoinWith(SelectNonEmpty(<<last.text>> \o leftover), <<" ">>)
                  IN  [ranges EXCEPT ![Len(ranges)] =
                          [startIndex |-> last.startIndex,
                           endIndex |-> n - 1,
                           text |-> text]]

AlignSentences(sentences, cueTexts) ==
    MergeLeftover(AlignWalk(sentences, cueTexts, 0, <<>>), cueTexts)

\* Variant: the mapping is discarded below 50% of the original unit count.
mapSentencesToRangesOrFallback_Half(rawSentences, rawCueTexts) ==
    LET cueTexts == [i \in 1..Len(rawCueTexts) |-> NormalizeText(rawCueTexts[i])]
        sentences == SelectNonEmpty(
                        [i \in 1..Len(rawSentences) |-> NormalizeText(rawSentences[i])])
        ranges == AlignSentences(sentences, cueTexts)
        original == SumSeq([i \in 1..Len(cueTexts) |-> UnitCount(cueTexts[i])])
        produced == SumSeq([i \in 1..Len(ranges) |-> UnitCount(ranges[i].text)])
    IN  IF sentences = <<>> THEN IdentityRanges(cueTexts)
        ELSE IF produced * 10 < original * 5 THEN IdentityRanges(cueTexts)
        ELSE ranges

\* mapSentencesToRangesOrFallback(sentences, originalCues), on the cue texts.
mapSentencesToRangesOrFallback(rawSentences, rawCueTexts) ==
    LET cueTexts == [i \in 1..Len(rawCueTexts) |-> NormalizeText(rawCueTexts[i])]
        sentences == SelectNonEmpty(
                        [i \in 1..Len(rawSentences) |-> NormalizeText(rawSentences[i])])
        ranges == AlignSentences(sentences, cueTexts)
        original == SumSeq([i \in 1..Len(cueTexts) |-> UnitCount(cueTexts[i])])
        produced == SumSeq([i \in 1..Len(ranges) |-> UnitCount(ranges[i].text)])
    IN  IF sentences = <<>> THEN IdentityRanges(cueTexts)
        ELSE IF produced * 10 < original * 7 THEN IdentityRanges(cueTexts)
        ELSE ranges

\* The ranges of the alignment alone, without the validity guard.
alignSentencesToRanges(rawSentences, rawCueTexts) ==
    AlignSentences(
        SelectNonEmpty([i \in 1..Len(rawSentences) |-> NormalizeText(rawSentences[i])]),
        [i \in 1..Len(rawCueTexts) |-> NormalizeText(rawCueTexts[i])])

\* The shortest span of a merged cue (0.2 s), in the time unit of the cues.
MinSpan == 1

\* The merged cues of ranges: start of the first fragment, end of the last
\* one, kept at least MinSpan after the start.
MergedCues(ranges, cs) ==
    [i \in 1..Len(ranges) |->
        LET start == cs[ranges[i].startIndex + 1].start
            last == cs[ranges[i].endIndex + 1].end
            end == IF last - start >= MinSpan THEN last ELSE start + MinSpan
        IN  [start |-> start, end |-> end, duration |-> end - start,
             text |-> ranges[i].text]]

\* mapSentencesToCues(sentences, cues) and mapSentencesToCuesOrFallback.
mapSentencesToCues(rawSentences, cs) ==
    MergedCues(alignSentencesToRanges(rawSentences,
                                      [i \in 1..Len(cs) |-> cs[i].text]), cs)

mapSentencesToCuesOrFallback(rawSentences, cs) ==
    MergedCues(mapSentencesToRangesOrFallback(rawSentences,
                                              [i \in 1..Len(cs) |-> cs[i].text]), cs)

\* ------------------------------------------------------------ the videos
VideoIds == {"v1", "v2"}

MkCue(i, text) == [start |-> 2 * i, end |-> 2 * i + 1, text |-> text]

\* The caption track each video serves: cues sorted by start, with gaps,
\* texts non-empty and normalized (subtitle-fetcher drops empty cues).
\* v1 is an ASR track long enough for the staged pipeline; v2 is shorter.
VideoCues(v) ==
    IF v = "v1"
    THEN << MkCue(0, <<"a", " ", "b">>), MkCue(1, <<"c">>), MkCue(2, <<"d">>),
            MkCue(3, <<"e">>), MkCue(4, <<"f">>) >>
    ELSE << MkCue(0, <<"g">>), MkCue(1, <<"h">>) >>

TrackKind(v) == IF v = "v1" THEN "asr" ELSE "manual"

\* video.currentTime as read by getCurrentCueIndex; -1 stands for a page
\* without a video element.
PlaybackTimes == -1..10

\* The text the batch service returns for an item it translates.
Zh == <<"Z">>

ErrNoTracks == "no caption track"
ErrNoCues == "cue fetch failed or empty"
ErrNoPort == "translation port not connected"
ErrService == "service error"

VARIABLES
    initialized,        \* initialize() has run
    enabled,            \* this.enabled
    url,                \* the v parameter of window.location (None: no video)
    currentVideoId,     \* this.currentVideoId (None: undefined)
    loadedTrackKey,     \* this.loadedTrackKey (None: null)
    cues,               \* this.cues
    translations,       \* this.translations: cue index -> text
    progress,           \* this.progress
    lastError,          \* this.lastError (None: undefined)
    pendingHint,        \* this.pendingHint
    syncTimer,          \* this.syncTimer is not null
    port,               \* this.port is not null
    reconnectTimer,     \* a connectPort timeout is scheduled
    pendingBatches,     \* keys of this.pendingBatches
    pendingResegments,  \* keys of this.pendingResegments
    posted,             \* requests the background has received, unanswered
    tasks,              \* the async call chains started so far
    overlay,            \* what the renderer was last told to display
    probe               \* inputs and result of a function applied on its own

vars == << initialized, enabled, url, currentVideoId, loadedTrackKey, cues,
           translations, progress, lastError, pendingHint, syncTimer, port,
           reconnectTimer, pendingBatches, pendingResegments, posted, tasks,
           overlay, probe >>

\* ---------------------------------------------------------------- tasks
\* A task is one async call chain: onNavigateFinish / discoverTracks, then
\* handleTrackPayload, then the pipeline run it starts. pc is the await the
\* chain is suspended on:
\*   "navwait"   onNavigateFinish's 600 ms timeout
\*   "discover"  discoverTracks' track lookup
\*   "fetch"     handleTrackPayload's loadCuesForTrack
\*   "resegment" the run's sendResegment
\*   "batch"     the run's sendBatch
\*   "done"      the chain has returned (outcome says how)
\* outcome says how a chain ended. Four fields record history for the
\* properties: fallback (the current stage's re-segment request failed),
\* playWindow (start of the window holding the cue active at the playback
\* time when the run began, window 0 when none was), firstStage (window and first text of the run's
\* first re-segment request) and missing (the ranges and texts of the items
\* whose id the last successful batch reply lacked).
NoRequest == <<>>
NoRanges == <<>>
NoStage == [start |-> -1, end |-> -1, first |-> <<>>]

NewTask(pc, videoId) ==
    [pc |-> pc, videoId |-> videoId, path |-> None, total |-> 0,
     stages |-> <<>>, si |-> 0, chunk |-> <<>>, items |-> <<>>,
     rangeByItemId |-> NoRanges, start |-> 0, requestId |-> NoRequest,
     outcome |-> "running", fallback |-> FALSE, playWindow |-> -1,
     firstStage |-> NoStage, missing |-> {}]

Running(r) == r.pc \in {"resegment", "batch"}

\* createRequestId: a fresh id per request. A run issues at most one
\* request of a kind per (stage, sub-batch) position, so the position names
\* the request.
createRequestId(t, r, kind) == <<t, r.si, r.start, kind>>

CueTexts(cs) == [i \in 1..Len(cs) |-> cs[i].text]

\* Array.prototype.slice(start, end), 0-based and clamped.
Slice(s, start, end) == SubSeq(s, start + 1, Min(end, Len(s)))

\* ------------------------------------------------------------ findCueByTime
RECURSIVE BinarySearch(_, _, _, _)
\* Variant: a time equal to a cue's end is taken to be past the cue.
BinarySearch_EndExclusive(cs, currentTime, left, right) ==
    IF left > right THEN -1
    ELSE LET mid == (left + right) \div 2
             cue == cs[mid + 1]
         IN  IF currentTime < cue.start
             THEN BinarySearch(cs, currentTime, left, mid - 1)
             ELSE IF currentTime >= cue.end
             THEN BinarySearch(cs, currentTime, mid + 1, right)
             ELSE mid

\* while (left <= right) { ... } of findCueByTime
BinarySearch(cs, currentTime, left, right) ==
    IF left > right THEN -1
    ELSE LET mid == (left + right) \div 2
             cue == cs[mid + 1]
         IN  IF currentTime < cue.start
             THEN BinarySearch(cs, currentTime, left, mid - 1)
             ELSE IF currentTime > cue.end
             THEN BinarySearch(cs, currentTime, mid + 1, right)
             ELSE mid

\* Index of the cue found, -1 for null.
findCueByTime(cs, currentTime) == BinarySearch(cs, currentTime, 0, Len(cs) - 1)

\* The cue whose span holds the playback time, by definition rather than by
\* search; 0 when there is none.
ActiveCueIndex(cs, time) ==
    LET active == {i \in 0..(Len(cs) - 1) :
                      time # -1 /\ cs[i + 1].start <= time /\ time <= cs[i + 1].end}
    IN  IF active = {} THEN 0 ELSE CHOOSE i \in active : TRUE

WindowStartOf(index) ==
    (index \div Max(1, RESEGMENT_BATCH_SIZE)) * Max(1, RESEGMENT_BATCH_SIZE)

\* Variant: the playback position is ignored.
getCurrentCueIndex_Zero(cs, time) == 0

\* time = -1: no video element.
getCurrentCueIndex(cs, time) ==
    IF time = -1 THEN 0
    ELSE LET found == findCueByTime(cs, time)
         IN  IF found = -1 THEN 0 ELSE found

\* ---------------------------------------------------- context, batch items
\* getContext reads this.cues[i].text for i = index-1 first: a TypeError
\* when index-1 is past the end of the store.
ContextThrows(cs, index) == index >= 1 /\ index - 1 >= Len(cs)

getContext(cs, index) ==
    LET lo == Max(0, index - contextWindow)
        hi == Min(Len(cs) - 1, index + contextWindow)
    IN  [before |-> [k \in 1..(index - lo) |-> cs[lo + k].text],
         after |-> [k \in 1..Max(0, hi - index) |-> cs[index + 1 + k].text]]

MkItem(cs, id, text, index) ==
    [id |-> id, text |-> text,
     contextBefore |-> getContext(cs, index).before,
     contextAfter |-> getContext(cs, index).after]

\* buildBatchItems(start, end): cue.text of a missing cue is a TypeError.
BatchItemsThrow(cs, start, end) == \E index \in start..(end - 1) : index >= Len(cs)

buildBatchItems(cs, start, end) ==
    [k \in 1..(end - start) |->
        MkItem(cs, start + k - 1, cs[start + k].text, start + k - 1)]

\* buildResegmentStageItems(ranges, absoluteStageStart)
KeptRanges(ranges) ==
    {i \in 1..Len(ranges) : NormalizeText(ranges[i].text) # <<>>}

RECURSIVE ItemsOf(_, _, _, _)
ItemsOf(cs, ranges, absoluteStageStart, i) ==
    IF i > Len(ranges) THEN <<>>
    ELSE IF i \notin KeptRanges(ranges)
         THEN ItemsOf(cs, ranges, absoluteStageStart, i + 1)
         ELSE << MkItem(cs, i - 1, ranges[i].text,
                        absoluteStageStart + ranges[i].startIndex) >>
              \o ItemsOf(cs, ranges, absoluteStageStart, i + 1)

buildResegmentStageItems(cs, ranges, absoluteStageStart) ==
    IF \E i \in KeptRanges(ranges) :
          ContextThrows(cs, absoluteStageStart + ranges[i].startIndex)
    THEN [threw |-> TRUE, items |-> <<>>, rangeByItemId |-> NoRanges]
    ELSE [threw |-> FALSE,
          items |-> ItemsOf(cs, ranges, absoluteStageStart, 1),
          rangeByItemId |->
              [id \in {i - 1 : i \in KeptRanges(ranges)} |->
                  [start |-> absoluteStageStart + ranges[id + 1].startIndex,
                   end |-> absoluteStageStart + ranges[id + 1].endIndex]]]

\* ------------------------------------------------------- progress counters
ClaimProgress(p, total, count) ==
    LET inflight == p.inflight + count
    IN  [p EXCEPT !.inflight = inflight,
                  !.pending = Max(0, total - p.translated - inflight)]

\* Variant: the finally block leaves inflight as it is.
RestoreProgress_Keep(p, total, count) ==
    [p EXCEPT !.pending = Max(0, total - p.translated - p.inflight)]

\* The finally block of a stage (ASR) or of a batch (plain).
RestoreProgress(p, total, count) ==
    LET inflight == Max(0, p.inflight - count)
    IN  [p EXCEPT !.inflight = inflight,
                  !.pending = Max(0, total - p.translated - inflight)]

\* ------------------------------------------------------------ pipeline run
\* The operators below work on a record x holding the fields a run writes
\* (translations, progress, lastError, pendingBatches, pendingResegments,
\* posted) and the run's own task r; t is the task's number and cs the cue
\* store as it is when the run executes. Each advances the run from one
\* point of the code to its next await or to its return.
Cancelled(r) == ~enabled \/ currentVideoId # r.videoId

\* The run returns (or throws): only its outcome is kept.
Finish(x, outcome) ==
    [x EXCEPT !.r = [NewTask("done", @.videoId) EXCEPT
                        !.path = x.r.path, !.total = x.r.total,
                        !.missing = x.r.missing, !.outcome = outcome]]

\* sendResegment with a connected port: the request is registered and posted.
SuspendOnResegment(x, t, chunk, texts) ==
    LET id == createRequestId(t, x.r, "resegment")
        stage == x.r.stages[x.r.si]
    IN  [x EXCEPT !.pendingResegments = @ \cup {id},
                  !.posted = @ \cup {[id |-> id, kind |-> "resegment"]},
                  !.r.pc = "resegment", !.r.requestId = id, !.r.chunk = chunk,
                  !.r.firstStage =
                      IF @ = NoStage
                      THEN [start |-> stage.start, end |-> stage.end,
                            first |-> texts[1]]
                      ELSE @]

\* sendBatch with a connected port.
SuspendOnBatch(x, t, batchItems) ==
    LET id == createRequestId(t, x.r, "batch")
    IN  [x EXCEPT !.pendingBatches = @ \cup {id},
                  !.posted = @ \cup {[id |-> id, kind |-> "batch"]},
                  !.r.pc = "batch", !.r.requestId = id]

StageCueCount(r) == r.stages[r.si].end - r.stages[r.si].start

RECURSIVE AsrStage(_, _, _)
RECURSIVE AsrItems(_, _, _, _)
RECURSIVE AsrBatch(_, _, _)

\* Top of `for (const stage of stages)`, r.si being the stage to process.
AsrStage(x, t, cs) ==
    LET r == x.r IN
    IF r.si > Len(r.stages) THEN Finish(x, "completed")
    ELSE IF Cancelled(r) THEN Finish(x, "cancelled")
    ELSE LET stage == r.stages[r.si]
             chunk == CueTexts(Slice(cs, stage.start, stage.end))
             texts == SelectNonEmpty([i \in 1..Len(chunk) |-> NormalizeText(chunk[i])])
         IN  IF stage.end - stage.start <= 0
             THEN AsrStage([x EXCEPT !.r.si = @ + 1], t, cs)
             ELSE IF texts = <<>>
             THEN AsrItems(x, t, cs, mapSentencesToRangesOrFallback(<<>>, chunk))
             ELSE IF ~port
             THEN \* sendResegment throws; caught: raw-chunk fallback
                  AsrItems([x EXCEPT !.r.fallback = TRUE], t, cs,
                           mapSentencesToRangesOrFallback(<<>>, chunk))
             ELSE SuspendOnResegment([x EXCEPT !.r.fallback = FALSE], t, chunk, texts)

\* From buildResegmentStageItems to the sub-batch loop.
AsrItems(x, t, cs, ranges) ==
    LET r == x.r
        built == buildResegmentStageItems(cs, ranges, r.stages[r.si].start)
    IN  IF built.threw THEN Finish(x, "threw")
        ELSE IF built.items = <<>>
        THEN AsrStage([x EXCEPT !.r.si = @ + 1, !.r.chunk = <<>>], t, cs)
        ELSE AsrBatch([x EXCEPT
                 !.progress = ClaimProgress(@, r.total, StageCueCount(r)),
                 !.r.chunk = <<>>, !.r.items = built.items,
                 !.r.rangeByItemId = built.rangeByItemId, !.r.start = 0], t, cs)

\* Variant: the stage has no finally block.
AsrFinally_Skip(x) == x

AsrFinally(x) ==
    [x EXCEPT !.progress = RestoreProgress(@, x.r.total, StageCueCount(x.r))]

\* Variant: after the last sub-batch the same stage is taken up again.
AsrBatch_SameStage(x, t, cs) ==
    LET r == x.r
        end == Min(Len(r.items), r.start + DEFAULT_SUBTITLE_BATCH_SIZE)
    IN  IF r.start >= Len(r.items)
        THEN AsrStage([AsrFinally(x) EXCEPT !.r.items = <<>>,
                          !.r.rangeByItemId = NoRanges, !.r.start = 0], t, cs)
        ELSE IF Cancelled(r) THEN Finish(AsrFinally(x), "cancelled")
        ELSE IF ~port
        THEN Finish([AsrFinally(x) EXCEPT !.lastError = ErrNoPort], "failed")
        ELSE SuspendOnBatch(x, t, SubSeq(r.items, r.start + 1, end))

\* Top of the sub-batch loop, r.start being the first item of the sub-batch.
AsrBatch(x, t, cs) ==
    LET r == x.r
        end == Min(Len(r.items), r.start + DEFAULT_SUBTITLE_BATCH_SIZE)
    IN  IF r.start >= Len(r.items)
        THEN AsrStage([AsrFinally(x) EXCEPT !.r.si = @ + 1, !.r.items = <<>>,
                          !.r.rangeByItemId = NoRanges, !.r.start = 0], t, cs)
        ELSE IF Cancelled(r) THEN Finish(AsrFinally(x), "cancelled")
        ELSE IF ~port
        THEN Finish([AsrFinally(x) EXCEPT !.lastError = ErrNoPort], "failed")
        ELSE SuspendOnBatch(x, t, SubSeq(r.items, r.start + 1, end))

\* Variant: the reply's value is taken even for an id it lacks.
BatchValue_NoFallback(item, present) == Zh

\* `translated[item.id] ?? item.text`
BatchValue(item, present) == IF item.id \in present THEN Zh ELSE item.text

RECURSIVE WriteRange(_, _, _, _)
\* Variant: only the first index of the range is written.
WriteRange_FirstOnly(x, index, end, value) ==
    IF index > end THEN x
    ELSE [x EXCEPT !.progress.translated =
                       IF index \in DOMAIN x.translations THEN @ ELSE @ + 1,
                   !.translations =
                       [k \in (DOMAIN @) \cup {index} |->
                           IF k = index THEN value ELSE @[k]]]

\* Variant: the loop runs one index past the end of the range.
WriteRange_Overrun(x, index, end, value) ==
    IF index > end THEN x
    ELSE [x EXCEPT !.progress.translated =
                       @ + Cardinality((index..(end + 1)) \ DOMAIN x.translations),
                   !.translations =
                       [k \in (DOMAIN @) \cup (index..(end + 1)) |->
                           IF k \in index..(end + 1) THEN value ELSE @[k]]]

\* Variant: translated is increased once per range, not once per index.
WriteRange_CountOnce(x, index, end, value) ==
    IF index > end THEN x
    ELSE [x EXCEPT !.progress.translated =
                       IF (index..end) \subseteq DOMAIN x.translations
                       THEN @ ELSE @ + 1,
                   !.translations =
                       [k \in (DOMAIN @) \cup (index..end) |->
                           IF k \in index..end THEN value ELSE @[k]]]

\* for (index = mapped.start; index <= mapped.end; index += 1) { ... }
WriteRange(x, index, end, value) ==
    IF index > end THEN x
    ELSE WriteRange(
            [x EXCEPT !.progress.translated =
                          IF index \in DOMAIN x.translations THEN @ ELSE @ + 1,
                      !.translations =
                          [k \in (DOMAIN @) \cup {index} |->
                              IF k = index THEN value ELSE @[k]]],
            index + 1, end, value)

RECURSIVE WriteAsrBatch(_, _, _)
\* for (const item of batchItems) { ... } on the staged path.
WriteAsrBatch(x, batchItems, present) ==
    IF batchItems = <<>> THEN x
    ELSE LET item == Head(batchItems)
             ranges == x.r.rangeByItemId
         IN  IF item.id \notin DOMAIN ranges
             THEN WriteAsrBatch(x, Tail(batchItems), present)
             ELSE WriteAsrBatch(
                      WriteRange(x, ranges[item.id].start, ranges[item.id].end,
                                 BatchValue(item, present)),
                      Tail(batchItems), present)

\* Variant: the sub-batch takes every remaining item of the stage.
CurrentBatch_All(r) == SubSeq(r.items, r.start + 1, Len(r.items))

CurrentBatch(r) ==
    SubSeq(r.items, r.start + 1,
           Min(Len(r.items), r.start + DEFAULT_SUBTITLE_BATCH_SIZE))

\* Resumptions of the staged run.
AsrResegmentResolved(x, t, cs, sentences) ==
    AsrItems(x, t, cs, mapSentencesToRangesOrFallback(sentences, x.r.chunk))

\* Variant: a rejected re-segment request ends the run.
AsrResegmentRejected_Aborts(x, t, cs) ==
    Finish([x EXCEPT !.lastError = ErrService], "failed")

AsrResegmentRejected(x, t, cs) ==
    AsrItems([x EXCEPT !.r.fallback = TRUE], t, cs,
             mapSentencesToRangesOrFallback(<<>>, x.r.chunk))

MissingOf(batchItems, ranges, present) ==
    {[start |-> ranges[batchItems[k].id].start,
      end |-> ranges[batchItems[k].id].end,
      text |-> batchItems[k].text] :
        k \in {j \in 1..Len(batchItems) : batchItems[j].id \notin present}}

\* Variant: the sub-batch loop does not advance.
AsrBatchResolved_Repeat(x, t, cs, present) ==
    AsrBatch([WriteAsrBatch(x, CurrentBatch(x.r), present)
                 EXCEPT !.r.missing = MissingOf(CurrentBatch(x.r),
                                                x.r.rangeByItemId, present)],
             t, cs)

AsrBatchResolved(x, t, cs, present) ==
    AsrBatch([WriteAsrBatch(x, CurrentBatch(x.r), present)
                 EXCEPT !.r.start = @ + DEFAULT_SUBTITLE_BATCH_SIZE,
                        !.r.missing = MissingOf(CurrentBatch(x.r),
                                                x.r.rangeByItemId, present)],
             t, cs)

\* Variant: the failure is not recorded.
AsrBatchRejected_Silent(x, message) ==
    Finish([AsrFinally(x) EXCEPT !.r.missing = {}], "failed")

\* Variant: the rejection is not caught and leaves the run as an exception.
AsrBatchRejected_Rethrows(x, message) ==
    Finish([AsrFinally(x) EXCEPT !.r.missing = {}], "threw")

AsrBatchRejected(x, message) ==
    Finish([AsrFinally(x) EXCEPT !.lastError = message, !.r.missing = {}],
           "failed")

\* translateAsrCuesByPlaybackStages(videoId), up to its first await.
translateAsrCuesByPlaybackStages(x, t, cs, time) ==
    LET total == Len(cs)
        currentIndex == getCurrentCueIndex(cs, time)
    IN  IF total = 0 THEN Finish([x EXCEPT !.r.path = "asr"], "completed")
        ELSE AsrStage([x EXCEPT
                 !.r.path = "asr", !.r.total = total, !.r.si = 1,
                 !.r.stages = buildStageWindowsByPlayback(
                                  total, RESEGMENT_BATCH_SIZE, currentIndex),
                 !.r.playWindow = WindowStartOf(ActiveCueIndex(cs, time))],
                      t, cs)

\* ------------------------------------------------------------ plain run
RECURSIVE AllBatch(_, _, _)
RECURSIVE WriteAllBatch(_, _, _)

\* for (const item of items) { set; translated += 1 }
WriteAllBatch(x, items, present) ==
    IF items = <<>> THEN x
    ELSE LET item == Head(items)
         IN  WriteAllBatch(
                 [x EXCEPT !.translations =
                               [k \in (DOMAIN @) \cup {item.id} |->
                                   IF k = item.id THEN BatchValue(item, present)
                                   ELSE @[k]],
                           !.progress.translated = @ + 1],
                 Tail(items), present)

AllFinally(x) ==
    [x EXCEPT !.progress = RestoreProgress(@, x.r.total, Len(x.r.items))]

\* Top of translateAllCues' loop, r.start being the first cue of the batch.
AllBatch(x, t, cs) ==
    LET r == x.r
        end == Min(r.total, r.start + DEFAULT_SUBTITLE_BATCH_SIZE)
    IN  IF r.start >= r.total THEN Finish(x, "completed")
        ELSE IF Cancelled(r) THEN Finish(x, "cancelled")
        ELSE IF BatchItemsThrow(cs, r.start, end) THEN Finish(x, "threw")
        ELSE LET items == buildBatchItems(cs, r.start, end)
                 claimed == [x EXCEPT
                                !.progress = ClaimProgress(@, r.total, Len(items)),
                                !.r.items = items]
             IN  IF ~port
                 THEN Finish([AllFinally(claimed) EXCEPT !.lastError = ErrNoPort],
                             "failed")
                 ELSE SuspendOnBatch(claimed, t, items)

AllBatchResolved(x, t, cs, present) ==
    AllBatch([AllFinally(WriteAllBatch(x, x.r.items, present))
                 EXCEPT !.r.start = @ + DEFAULT_SUBTITLE_BATCH_SIZE,
                        !.r.items = <<>>,
                        !.r.missing =
                            MissingOf(x.r.items,
                                      [id \in {x.r.items[k].id : k \in 1..Len(x.r.items)}
                                          |-> [start |-> id, end |-> id]],
                                      present)],
             t, cs)

AllBatchRejected(x, message) ==
    Finish([AllFinally(x) EXCEPT !.lastError = message, !.r.missing = {}],
           "failed")

translateAllCues(x, t, cs) ==
    IF Len(cs) = 0 THEN Finish([x EXCEPT !.r.path = "all"], "completed")
    ELSE AllBatch([x EXCEPT !.r.path = "all", !.r.total = Len(cs),
                            !.r.start = 0], t, cs)

\* ------------------------------------------------------------------ state
\* renderer.hide() / renderer.setTranslation(text)
Hidden == [shown |-> FALSE, text |-> <<>>]
Shown(text) == [shown |-> TRUE, text |-> text]
\* The renderer after a command; beat flips with every tick of the
\* synchronizer, so that a tick repeating the last command is a step.
NoOverlay == [display |-> Hidden, beat |-> FALSE]
Render(o, display) == [o EXCEPT !.display = display]

NoProbe == [fn |-> "none"]

ZeroProgress == [total |-> 0, translated |-> 0, inflight |-> 0, pending |-> 0]
NoTranslations == <<>>

InitProgram ==
    /\ initialized = FALSE
    /\ enabled = FALSE
    /\ url \in VideoIds \cup {None}
    /\ currentVideoId = None
    /\ loadedTrackKey = None
    /\ cues = <<>>
    /\ translations = NoTranslations
    /\ progress = ZeroProgress
    /\ lastError = None
    /\ pendingHint = "translating"
    /\ syncTimer = FALSE
    /\ port = FALSE
    /\ reconnectTimer = FALSE
    /\ pendingBatches = {}
    /\ pendingResegments = {}
    /\ posted = {}
    /\ tasks = <<>>
    /\ overlay = NoOverlay

Init == InitProgram /\ probe = NoProbe

\* The fields a run writes, with task r.
RunState(r) ==
    [translations |-> translations, progress |-> progress,
     lastError |-> lastError, pendingBatches |-> pendingBatches,
     pendingResegments |-> pendingResegments, posted |-> posted, r |-> r]

\* The state after task t's code has run to x.
Commit(x, t) ==
    /\ translations' = x.translations
    /\ progress' = x.progress
    /\ lastError' = x.lastError
    /\ pendingBatches' = x.pendingBatches
    /\ pendingResegments' = x.pendingResegments
    /\ posted' = x.posted
    /\ tasks' = [tasks EXCEPT ![t] = x.r]

EndTask(r, outcome) == [NewTask("done", r.videoId) EXCEPT !.outcome = outcome]

\* discoverTracks() called synchronously: it reads the video id of the URL
\* and returns at once when there is none.
StartDiscovery(limit) ==
    IF url = None THEN UNCHANGED tasks
    ELSE /\ Len(tasks) < limit
         /\ tasks' = Append(tasks, NewTask("discover", url))

\* initialize(): preference read, connectPort, listeners, discoverTracks.
Initialize(en, limit) ==
    /\ ~initialized
    /\ initialized' = TRUE
    /\ enabled' = en
    /\ port' = TRUE
    /\ IF en THEN StartDiscovery(limit) ELSE UNCHANGED tasks
    /\ overlay' = IF en THEN overlay ELSE Render(overlay, Hidden)
    /\ UNCHANGED << probe, url, currentVideoId, loadedTrackKey, cues, translations,
                    progress, lastError, pendingHint, syncTimer,
                    reconnectTimer, pendingBatches, pendingResegments, posted >>

\* setEnabled(false)
Disable ==
    /\ initialized
    /\ enabled' = FALSE
    /\ lastError' = None
    /\ syncTimer' = FALSE
    /\ progress' = [progress EXCEPT !.inflight = 0, !.pending = 0]
    /\ overlay' = Render(overlay, Hidden)
    /\ UNCHANGED << probe, initialized, url, currentVideoId, loadedTrackKey, cues,
                    translations, pendingHint, port, reconnectTimer,
                    pendingBatches, pendingResegments, posted, tasks >>

\* setEnabled(true)
Enable(limit) ==
    /\ initialized
    /\ enabled' = TRUE
    /\ lastError' = None
    /\ port' = TRUE
    /\ loadedTrackKey' = None
    /\ StartDiscovery(limit)
    /\ UNCHANGED << overlay, probe, initialized, url, currentVideoId, cues, translations,
                    progress, pendingHint, syncTimer, reconnectTimer,
                    pendingBatches, pendingResegments, posted >>

\* The page navigates to v and yt-navigate-finish fires: onNavigateFinish
\* returns at once when disabled, and waits 600 ms otherwise.
Navigate(v, limit) ==
    /\ initialized
    /\ v # url
    /\ url' = v
    /\ IF enabled
       THEN /\ Len(tasks) < limit
            /\ tasks' = Append(tasks, NewTask("navwait", None))
       ELSE UNCHANGED tasks
    /\ UNCHANGED << overlay, probe, initialized, enabled, currentVideoId, loadedTrackKey, cues,
                    translations, progress, lastError, pendingHint, syncTimer,
                    port, reconnectTimer, pendingBatches, pendingResegments,
                    posted >>

\* onNavigateFinish after its timeout: the second enabled check, then
\* discoverTracks reads the URL.
NavigateWake(t) ==
    /\ tasks[t].pc = "navwait"
    /\ tasks' = [tasks EXCEPT ![t] =
                    IF ~enabled \/ url = None THEN EndTask(@, "skipped")
                    ELSE [@ EXCEPT !.pc = "discover", !.videoId = url]]
    /\ UNCHANGED << overlay, probe, initialized, enabled, url, currentVideoId, loadedTrackKey,
                    cues, translations, progress, lastError, pendingHint,
                    syncTimer, port, reconnectTimer, pendingBatches,
                    pendingResegments, posted >>

\* discoverTracks ends without a usable track list.
DiscoverNoTracks(t) ==
    /\ tasks[t].pc = "discover"
    /\ lastError' = ErrNoTracks
    /\ tasks' = [tasks EXCEPT ![t] = EndTask(@, "noTracks")]
    /\ UNCHANGED << overlay, probe, initialized, enabled, url, currentVideoId, loadedTrackKey,
                    cues, translations, progress, pendingHint, syncTimer, port,
                    reconnectTimer, pendingBatches, pendingResegments, posted >>

\* The track key of the payload discoverTracks builds for a video.
TrackKey(videoId) == videoId

\* discoverTracks found tracks: handleTrackPayload up to loadCuesForTrack.
\* resetForVideo is the branch taken when the video id differs.
HandleTrackPayload(t) ==
    LET r == tasks[t]
        reset == currentVideoId # r.videoId
        cuesNow == IF reset THEN <<>> ELSE cues
        keyNow == IF reset THEN None ELSE loadedTrackKey
    IN  /\ r.pc = "discover"
        /\ IF ~enabled
           THEN /\ tasks' = [tasks EXCEPT ![t] = EndTask(@, "skipped")]
                /\ UNCHANGED << currentVideoId, loadedTrackKey, cues,
                                translations, progress, pendingHint, syncTimer >>
           ELSE /\ currentVideoId' = r.videoId
                /\ cues' = cuesNow
                /\ translations' = IF reset THEN NoTranslations ELSE translations
                /\ progress' = IF reset THEN ZeroProgress ELSE progress
                /\ pendingHint' = IF reset THEN "translating" ELSE pendingHint
                /\ syncTimer' = IF reset THEN FALSE ELSE syncTimer
                /\ IF TrackKey(r.videoId) = keyNow /\ Len(cuesNow) > 0
                   THEN /\ loadedTrackKey' = keyNow
                        /\ tasks' = [tasks EXCEPT ![t] = EndTask(@, "alreadyLoaded")]
                   ELSE /\ loadedTrackKey' = TrackKey(r.videoId)
                        /\ tasks' = [tasks EXCEPT ![t].pc = "fetch"]
        /\ UNCHANGED << overlay, probe, initialized, enabled, url, lastError, port,
                        reconnectTimer, pendingBatches, pendingResegments,
                        posted >>

\* No track returned a cue.
FetchFailed(t) ==
    /\ tasks[t].pc = "fetch"
    /\ lastError' = ErrNoCues
    /\ tasks' = [tasks EXCEPT ![t] = EndTask(@, "noCues")]
    /\ UNCHANGED << overlay, probe, initialized, enabled, url, currentVideoId, loadedTrackKey,
                    cues, translations, progress, pendingHint, syncTimer, port,
                    reconnectTimer, pendingBatches, pendingResegments, posted >>

\* Variant: the Translation Map of the previous cue set is kept.
ResetForLoad_KeepsMap(x, n) ==
    [x EXCEPT !.lastError = None,
              !.progress = [total |-> n, translated |-> 0,
                            inflight |-> 0, pending |-> n]]

\* handleTrackPayload once the cues are fetched: the map, last-error and
\* the counters are reset for the n cues.
ResetForLoad(x, n) ==
    [x EXCEPT !.translations = NoTranslations,
              !.lastError = None,
              !.progress = [total |-> n, translated |-> 0,
                            inflight |-> 0, pending |-> n]]

\* The cue set is loaded: the rest of handleTrackPayload, startSync, and the
\* run it starts, up to the run's first await.
LoadCues(t, time) ==
    LET r == tasks[t]
        fetched == VideoCues(r.videoId)
        shouldResegment == TrackKind(r.videoId) = "asr" /\ Len(fetched) >= MIN_ASR_CUES
        loaded == ResetForLoad(RunState(r), Len(fetched))
    IN  /\ r.pc = "fetch"
        /\ cues' = fetched
        /\ pendingHint' = IF shouldResegment THEN "resegmenting" ELSE "translating"
        /\ syncTimer' = TRUE
        /\ Commit(IF shouldResegment
                  THEN translateAsrCuesByPlaybackStages(loaded, t, fetched, time)
                  ELSE translateAllCues(loaded, t, fetched), t)
        /\ UNCHANGED << overlay, probe, initialized, enabled, url, currentVideoId,
                        loadedTrackKey, port, reconnectTimer >>

\* ----------------------------------------------------------- port messages
SeqsUpTo(S, n) == UNION {[1..k -> S] : k \in 0..n}

\* Sentences a re-segment reply may carry for the request texts: every
\* run of consecutive texts joined, a blank sentence and a foreign word.
SentencePool(texts) ==
    ({JoinWith(SubSeq(texts, i, j), <<" ">>) :
        i \in 1..Len(texts), j \in 1..Len(texts)} \ {<<>>})
    \cup {<<" ">>, <<"x">>}

\* wide: every sentence list up to MaxSentences over the pool; otherwise
\* the unchanged segmentation and everything merged into one sentence.
ResegmentReplies(texts, wide) ==
    IF wide THEN SeqsUpTo(SentencePool(texts), MaxSentences)
    ELSE {texts, <<JoinWith(texts, <<" ">>)>>}

RequestTexts(r) ==
    SelectNonEmpty([i \in 1..Len(r.chunk) |-> NormalizeText(r.chunk[i])])

BatchOf(r) == IF r.path = "asr" THEN CurrentBatch(r) ELSE r.items

BatchIds(r) == {BatchOf(r)[k].id : k \in 1..Len(BatchOf(r))}

\* handlePortMessage("translate:batchDone") and the run it resumes. The
\* reply carries a translation for the ids in `present`: any subset of the
\* ids sent when wide, all or none of them otherwise.
BatchDone(q, present, wide) ==
    LET t == q.id[1]
        r == tasks[t]
        x == [RunState(r) EXCEPT !.posted = @ \ {q},
                                 !.pendingBatches = @ \ {q.id}]
    IN  /\ q \in posted /\ q.kind = "batch"
        /\ IF q.id \notin pendingBatches
           THEN present = {} /\ Commit(x, t)
           ELSE /\ present \in IF wide THEN SUBSET BatchIds(r)
                                ELSE {BatchIds(r), {}}
                /\ Commit(IF r.path = "asr"
                          THEN AsrBatchResolved(x, t, cues, present)
                          ELSE AllBatchResolved(x, t, cues, present), t)
        /\ UNCHANGED << overlay, probe, initialized, enabled, url, currentVideoId,
                        loadedTrackKey, cues, pendingHint, syncTimer, port,
                        reconnectTimer >>

\* handlePortMessage("translate:resegmentDone") and the run it resumes.
ResegmentDone(q, wide) ==
    LET t == q.id[1]
        r == tasks[t]
        x == [RunState(r) EXCEPT !.posted = @ \ {q},
                                 !.pendingResegments = @ \ {q.id}]
    IN  /\ q \in posted /\ q.kind = "resegment"
        /\ IF q.id \notin pendingResegments
           THEN Commit(x, t)
           ELSE \E sentences \in ResegmentReplies(RequestTexts(r), wide) :
                    Commit(AsrResegmentResolved(x, t, cues, sentences), t)
        /\ UNCHANGED << overlay, probe, initialized, enabled, url, currentVideoId,
                        loadedTrackKey, cues, pendingHint, syncTimer, port,
                        reconnectTimer >>

\* Variant: the rejected batch is left in its pending table.
TranslateError_KeepsEntry(q) ==
    LET t == q.id[1]
        r == tasks[t]
        x == [RunState(r) EXCEPT !.posted = @ \ {q}]
    IN  /\ q \in posted
        /\ IF q.id \in pendingBatches
           THEN Commit([(IF r.path = "asr" THEN AsrBatchRejected(x, ErrService)
                         ELSE AllBatchRejected(x, ErrService))
                            EXCEPT !.pendingBatches = @ \cup {q.id}], t)
           ELSE IF q.id \in pendingResegments
           THEN Commit(AsrResegmentRejected(
                           [x EXCEPT !.pendingResegments = @ \ {q.id}], t, cues), t)
           ELSE Commit(x, t)
        /\ UNCHANGED << overlay, probe, initialized, enabled, url, currentVideoId,
                        loadedTrackKey, cues, pendingHint, syncTimer, port,
                        reconnectTimer >>

\* handlePortMessage("translate:error"): the pending batch with that id is
\* rejected, else the pending re-segment with that id.
TranslateError(q) ==
    LET t == q.id[1]
        r == tasks[t]
        x == [RunState(r) EXCEPT !.posted = @ \ {q}]
    IN  /\ q \in posted
        /\ IF q.id \in pendingBatches
           THEN LET y == [x EXCEPT !.pendingBatches = @ \ {q.id}]
                IN  Commit(IF r.path = "asr" THEN AsrBatchRejected(y, ErrService)
                           ELSE AllBatchRejected(y, ErrService), t)
           ELSE IF q.id \in pendingResegments
           THEN Commit(AsrResegmentRejected(
                           [x EXCEPT !.pendingResegments = @ \ {q.id}], t, cues), t)
           ELSE Commit(x, t)
        /\ UNCHANGED << overlay, probe, initialized, enabled, url, currentVideoId,
                        loadedTrackKey, cues, pendingHint, syncTimer, port,
                        reconnectTimer >>

\* port.onDisconnect: the listener drops the port and schedules connectPort
\* when enabled; what the background had not answered is never answered.
PortDisconnect ==
    /\ port
    /\ port' = FALSE
    /\ posted' = {}
    /\ reconnectTimer' = (reconnectTimer \/ enabled)
    /\ UNCHANGED << overlay, probe, initialized, enabled, url, currentVideoId, loadedTrackKey,
                    cues, translations, progress, lastError, pendingHint,
                    syncTimer, pendingBatches, pendingResegments, tasks >>

\* The 400 ms timeout fires: connectPort().
Reconnect ==
    /\ reconnectTimer
    /\ reconnectTimer' = FALSE
    /\ port' = TRUE
    /\ UNCHANGED << overlay, probe, initialized, enabled, url, currentVideoId, loadedTrackKey,
                    cues, translations, progress, lastError, pendingHint,
                    syncTimer, pendingBatches, pendingResegments, posted, tasks >>

\* dispose(): stopSync, renderer.destroy, the port is disconnected from
\* this end (whose own onDisconnect listener does not run, so no reconnect
\* is scheduled) and both pending tables are cleared; no entry is settled
\* and enabled is left alone.
Dispose ==
    /\ syncTimer' = FALSE
    /\ overlay' = Render(overlay, Hidden)
    /\ port' = FALSE
    /\ posted' = {}
    /\ pendingBatches' = {}
    /\ pendingResegments' = {}
    /\ UNCHANGED << probe, initialized, enabled, url, currentVideoId, loadedTrackKey,
                    cues, translations, progress, lastError, pendingHint,
                    reconnectTimer, tasks >>

\* --------------------------------------------------------- specifications
TaskIds == 1..Len(tasks)

NextWith(limit, wide) ==
    \/ \E en \in BOOLEAN : Initialize(en, limit)
    \/ Disable
    \/ Enable(limit)
    \/ \E v \in VideoIds \cup {None} : Navigate(v, limit)
    \/ \E t \in TaskIds : NavigateWake(t)
    \/ \E t \in TaskIds : DiscoverNoTracks(t)
    \/ \E t \in TaskIds : HandleTrackPayload(t)
    \/ \E t \in TaskIds : FetchFailed(t)
    \/ \E t \in TaskIds, time \in PlaybackTimes : LoadCues(t, time)
    \/ \E q \in posted, present \in SUBSET (0..4) : BatchDone(q, present, wide)
    \/ \E q \in posted : ResegmentDone(q, wide)
    \/ \E q \in posted : TranslateError(q)

\* Every interleaving of up to MaxTasks call chains over a port that stays
\* connected.
Next == NextWith(MaxTasks, FALSE)
Spec == Init /\ [][Next]_vars

\* A single call chain, hence a single pipeline run, with every re-segment
\* reply up to MaxSentences sentences, every set of missing ids, and a
\* port that may disconnect.
NextRun == NextWith(1, TRUE) \/ PortDisconnect \/ Reconnect
SpecRun == Init /\ [][NextRun]_vars

\* ------------------------------------------------------------- properties
IsActive(t) == Running(tasks[t])

\* Task t executes in this step.
Resumes(t) == tasks'[t] # tasks[t]

\* Task t posts a request in this step.
Issues(t) ==
    /\ tasks'[t].requestId # NoRequest
    /\ tasks'[t].requestId # tasks[t].requestId

GuardFails(r) == ~enabled \/ currentVideoId # r.videoId

\* C1: a run never writes into the Translation Map once translation is
\* disabled or the current video identity differs from the run's: no step
\* in which a run resumes with its guard failing changes the map.
C1_NoStaleWrite ==
    [][\A t \in TaskIds :
          (IsActive(t) /\ GuardFails(tasks[t]) /\ Resumes(t))
              => translations' = translations]_vars

\* C2: at most one pipeline run is active for a video identity.
C2_OneRunPerVideo ==
    \A t1, t2 \in TaskIds :
        (t1 # t2 /\ IsActive(t1) /\ IsActive(t2))
            => tasks[t1].videoId # tasks[t2].videoId

Completed(t) == tasks[t].pc = "done" /\ tasks[t].outcome = "completed"

\* C3: a staged run that went through every stage without a batch failure
\* and without being cancelled ends with a Translation Map entry for every
\* cue index, translated = N, inflight = 0 and pending = 0, whatever the
\* re-segment replies were.
C3_CompleteRunTranslatesAll ==
    \A t \in TaskIds :
        (Completed(t) /\ tasks[t].path = "asr")
            => /\ tasks[t].total = Len(VideoCues(tasks[t].videoId))
               /\ DOMAIN translations = 0..(tasks[t].total - 1)
               /\ progress.translated = tasks[t].total
               /\ progress.inflight = 0
               /\ progress.pending = 0

C3_Witness ==
    \E t \in TaskIds :
        /\ Completed(t) /\ tasks[t].path = "asr"
        /\ progress.translated = 5
        /\ translations[3] = Zh
        /\ translations[1] = <<"c", " ", "d">>
        /\ translations[2] = <<"c", " ", "d">>

\* C4, first request: the run's first re-segment request is for the window
\* holding the cue active at the playback time (window 0 when none is), and
\* its first text is that window's first cue.
C4_FirstStage ==
    \A t \in TaskIds :
        LET r == tasks[t] IN
        r.firstStage # NoStage
            => /\ r.firstStage.start = r.playWindow
               /\ r.firstStage.end =
                      Min(r.total, r.playWindow + RESEGMENT_BATCH_SIZE)
               /\ r.firstStage.first =
                      NormalizeText(VideoCues(r.videoId)[r.playWindow + 1].text)

\* C4, order: a re-segment request opens the run or follows the last
\* sub-batch of the previous stage; a batch request follows the re-segment
\* request of its stage or the previous sub-batch of its stage.
C4_StageOrder(t) ==
    LET r == tasks[t]
        n == tasks'[t]
    IN  (Issues(t) /\ n.path = "asr") =>
            IF n.pc = "resegment"
            THEN \/ r.pc = "fetch" /\ n.si = 1
                 \/ /\ r.pc = "batch" /\ n.si = r.si + 1
                    /\ r.start + DEFAULT_SUBTITLE_BATCH_SIZE >= Len(r.items)
            ELSE \/ r.pc = "resegment" /\ n.si = r.si /\ n.start = 0
                 \/ /\ r.pc = "batch" /\ n.si = r.si
                    /\ n.start = r.start + DEFAULT_SUBTITLE_BATCH_SIZE

\* C4: stages are processed strictly in the rotated order, starting with
\* the window of the playback position, one stage after the other.
C4_RotatedOrder ==
    [][(\A t \in TaskIds : C4_StageOrder(t)) /\ C4_FirstStage']_vars

C4_Witness ==
    \E t \in TaskIds :
        /\ tasks[t].firstStage.start = 3
        /\ tasks[t].pc = "resegment" /\ tasks[t].si = 2

StageOf(r) == r.stages[r.si]

\* C5, items: after a rejected re-segment request the stage's items are one
\* per original cue, each with the cue's own text and range.
C5_IdentityItems ==
    \A t \in TaskIds :
        LET r == tasks[t] IN
        (r.pc = "batch" /\ r.fallback)
            => /\ Len(r.items) = StageOf(r).end - StageOf(r).start
               /\ \A k \in 1..Len(r.items) :
                      /\ r.items[k].text =
                             VideoCues(r.videoId)[StageOf(r).start + k].text
                      /\ r.rangeByItemId[r.items[k].id] =
                             [start |-> StageOf(r).start + k - 1,
                              end |-> StageOf(r).start + k - 1]

\* C5, continuation: a run suspended on a re-segment request goes on to the
\* sub-batches of the same stage when it resumes, unless it is cancelled or
\* the port is gone; and a run that went through every stage has translated
\* every cue.
C5_Continues(t) ==
    LET r == tasks[t]
        n == tasks'[t]
    IN  (r.pc = "resegment" /\ Resumes(t))
            => \/ n.pc = "batch" /\ n.si = r.si
               \/ n.pc = "done" /\ (GuardFails(r) \/ ~port)

\* C5: a rejected re-segment request does not abort the run.
C5_ResegmentFailureIsLocal ==
    [][/\ \A t \in TaskIds : C5_Continues(t)
       /\ C5_IdentityItems'
       /\ \A t \in TaskIds :
              (Completed(t)' /\ tasks'[t].path = "asr")
                  => progress'.translated = tasks'[t].total]_vars

C5_Witness ==
    \E t \in TaskIds :
        /\ tasks[t].pc = "batch" /\ tasks[t].fallback
        /\ tasks[t].si = 2 /\ tasks[t].start = 2

\* C6: when a batch request fails the run records a last-error, ends
\* without a further request, and leaves the Translation Map as it was.
C6_BatchFailureAborts ==
    [][\A t \in TaskIds :
          /\ (tasks[t].pc = "batch" /\ tasks'[t].outcome = "failed")
                 => /\ lastError' # None
                    /\ translations' = translations
                    /\ tasks'[t].pc = "done"
                    /\ posted' \subseteq posted
          /\ tasks[t].pc = "done" => tasks'[t] = tasks[t]]_vars

C6_Witness ==
    \E t \in TaskIds :
        /\ tasks[t].outcome = "failed" /\ tasks[t].path = "asr"
        /\ lastError = ErrService
        /\ DOMAIN translations = {3, 4}

\* C7: once translation is disabled or the video identity differs from the
\* run's, the run posts no new request and returns without setting
\* last-error: a run that resumes while its guard fails ends in that step,
\* posts nothing and leaves last-error as it was.
C7_CancelledRunIsSilent ==
    [][\A t \in TaskIds :
          (IsActive(t) /\ GuardFails(tasks[t]) /\ Resumes(t))
              => /\ tasks'[t].pc = "done"
                 /\ ~Issues(t)
                 /\ lastError' = lastError]_vars

\* C8: every key of the Translation Map is an index of the cue store.
C8_KeysInCueStore ==
    DOMAIN translations \subseteq 0..(Len(cues) - 1)

MissingIndices(t) == UNION {m.start..m.end : m \in tasks[t].missing}

\* A successful batch reply is applied for task t in this step.
ReplyApplied(t) ==
    /\ tasks[t].pc = "batch"
    /\ Resumes(t)
    /\ ~(tasks'[t].outcome = "failed" /\ tasks'[t].missing = {})

\* C9 as claimed: the cue indices of an item whose id a successful reply
\* lacked get no Translation Map entry.
C9_MissingIdNoEntry ==
    [][\A t \in TaskIds :
          ReplyApplied(t)
              => MissingIndices(t)' \cap DOMAIN translations' = {}]_vars

\* C9 amended: the cue indices of an item whose id a successful reply
\* lacked all get the item's own text as their entry, and are counted in
\* progress.translated like any other entry.
C9_MissingIdGetsItemText ==
    [][\A t \in TaskIds :
          ReplyApplied(t)
              => /\ \A m \in tasks'[t].missing :
                        \A i \in m.start..m.end :
                            /\ i \in DOMAIN translations'
                            /\ translations'[i] = m.text
                 /\ progress'.translated >= Cardinality(MissingIndices(t)')]_vars

C9_Witness ==
    \E t \in TaskIds :
        /\ tasks[t].pc = "batch" /\ tasks[t].path = "asr"
        /\ \E m \in tasks[t].missing : m.end > m.start

\* C10: progress.translated equals the number of Translation Map entries in
\* every state a single run reaches.
C10_TranslatedCountsEntries ==
    progress.translated = Cardinality(DOMAIN translations)

C10_Witness ==
    /\ \E t \in TaskIds : tasks[t].pc = "batch" /\ tasks[t].path = "asr"
    /\ progress.translated = 3
    /\ \E i \in DOMAIN translations : translations[i] = <<"c", " ", "d">>

\* The ranges of the items of the sub-batch task t waits for.
BatchRanges(t) ==
    LET r == tasks[t]
        batch == CurrentBatch(r)
    IN  {[item |-> batch[k], range |-> r.rangeByItemId[batch[k].id]] :
            k \in {j \in 1..Len(batch) : batch[j].id \in DOMAIN r.rangeByItemId}}

\* C11: after a successful sub-batch every cue index of an item's range
\* holds one and the same text (the translation), and no index outside the
\* ranges of the sub-batch's items is written.
C11_RangeWriteFrame ==
    [][\A t \in TaskIds :
          (ReplyApplied(t) /\ tasks[t].path = "asr")
              => LET written == UNION {(b.range.start)..(b.range.end) :
                                          b \in BatchRanges(t)}
                 IN  /\ \A b \in BatchRanges(t) :
                            \E v \in {Zh, b.item.text} :
                                \A i \in (b.range.start)..(b.range.end) :
                                    /\ i \in DOMAIN translations'
                                    /\ translations'[i] = v
                     /\ DOMAIN translations' = DOMAIN translations \cup written
                     /\ \A i \in DOMAIN translations \ written :
                            translations'[i] = translations[i]]_vars

C11_Witness ==
    \E t \in TaskIds :
        /\ tasks[t].pc = "batch" /\ tasks[t].path = "asr"
        /\ DOMAIN translations = {0, 1, 2}
        /\ translations[1] = Zh /\ translations[2] = Zh

NonNegative ==
    /\ progress.total >= 0 /\ progress.translated >= 0
    /\ progress.inflight >= 0 /\ progress.pending >= 0

Balanced ==
    progress.translated + progress.inflight + progress.pending = progress.total

OnBatch == \E t \in TaskIds : tasks[t].pc = "batch"

\* A step of setEnabled(false): no run acts and translation is off after it.
SetDisabledStep == ~enabled' /\ tasks' = tasks

\* C12 as claimed: the counters are non-negative, and whenever the run is
\* not suspended on a batch request translated + inflight + pending = total.
C12_CountersBalanced ==
    NonNegative /\ (~OnBatch => Balanced)

\* C12 amended: the counters are non-negative in every state; every step of
\* a single run that leaves it not suspended on a batch request establishes
\* translated + inflight + pending = total; and only setEnabled(false),
\* which zeroes inflight and pending alone, breaks the equation.
C12_BalancedButForDisable ==
    [][/\ NonNegative'
       /\ ((\E t \in TaskIds : Resumes(t)) /\ ~OnBatch') => Balanced'
       /\ ((Balanced \/ OnBatch) /\ ~SetDisabledStep)
              => (Balanced' \/ OnBatch')]_vars

C12_Witness ==
    \E t \in TaskIds :
        /\ tasks[t].outcome = "cancelled" /\ tasks[t].path = "asr"
        /\ ~enabled
        /\ progress.translated = 3 /\ progress.pending = 2

\* C13: the inflight increase made before dispatch is undone on every exit
\* path: whenever no run has a batch request outstanding, and in particular
\* after the runs have ended, inflight is 0.
C13_InflightRestored ==
    ~OnBatch => progress.inflight = 0

C13_Witness ==
    \E t \in TaskIds :
        /\ tasks[t].outcome = "failed" /\ tasks[t].path = "asr"
        /\ progress.translated = 2 /\ progress.inflight = 0
        /\ progress.pending = 3
        /\ ~OnBatch

\* The requests of task t that are registered as pending, and those the
\* service holds.
PendingOf(t) == {id \in pendingBatches \cup pendingResegments : id[1] = t}
PostedOf(t) == {q \in posted : q.id[1] = t}

\* C14, state part: a run has at most one request outstanding, none when it
\* is not suspended on one, and a sub-batch has between 1 and
\* DEFAULT_SUBTITLE_BATCH_SIZE items.
C14_OneOutstanding ==
    \A t \in TaskIds :
        /\ Cardinality(PendingOf(t)) <= 1
        /\ Cardinality(PostedOf(t)) <= 1
        /\ PostedOf(t) \subseteq {[id |-> tasks[t].requestId, kind |-> tasks[t].pc]}
        /\ ~Running(tasks[t]) => (PendingOf(t) = {} /\ PostedOf(t) = {})
        /\ tasks[t].pc = "batch"
               => Len(BatchOf(tasks[t])) \in 1..DEFAULT_SUBTITLE_BATCH_SIZE

\* C14, step part: within a stage the next sub-batch is posted by the step
\* that consumes the reply of the previous one, and its items follow the
\* previous sub-batch's items in item order and in cue order.
C14_NextSubBatch(t) ==
    LET r == tasks[t]
        n == tasks'[t]
    IN  (Issues(t) /\ r.pc = "batch" /\ n.pc = "batch" /\ n.path = "asr")
            => /\ n.si = r.si /\ n.items = r.items
               /\ n.start = r.start + Len(CurrentBatch(r))
               /\ [id |-> r.requestId, kind |-> "batch"] \notin posted'
               /\ r.requestId \notin pendingBatches'
               /\ \A a \in 1..Len(CurrentBatch(r)), b \in 1..Len(CurrentBatch(n)) :
                      /\ CurrentBatch(r)[a].id < CurrentBatch(n)[b].id
                      /\ r.rangeByItemId[CurrentBatch(r)[a].id].end
                             < n.rangeByItemId[CurrentBatch(n)[b].id].start

\* C14: a single run has at most one external request outstanding, and the
\* sub-batches of a stage are dispatched one after the other in ascending
\* item order, each with at most DEFAULT_SUBTITLE_BATCH_SIZE items.
C14_SequentialSubBatches ==
    [][C14_OneOutstanding' /\ \A t \in TaskIds : C14_NextSubBatch(t)]_vars

C14_Witness ==
    \E t \in TaskIds :
        /\ tasks[t].pc = "batch" /\ tasks[t].path = "asr"
        /\ tasks[t].start = DEFAULT_SUBTITLE_BATCH_SIZE
        /\ Len(tasks[t].items) = 3
        /\ Cardinality(posted) = 1

\* ------------------------------------------------ the stage windower alone
\* The arguments the windower is applied to: every small combination, the
\* degenerate ones included, and the one of the test suite.
WindowInputs ==
    [totalCues : 0..MaxTotalCues, stageSize : -1..MaxStageSize,
     currentIndex : -2..(MaxTotalCues + 1)]
        \cup {[totalCues |-> 250, stageSize |-> 100, currentIndex |-> 160]}

InitWindows ==
    /\ InitProgram
    /\ url = None
    /\ \E in \in WindowInputs :
           probe = [fn |-> "windows", in |-> in, done |-> FALSE, result |-> <<>>]

ApplyWindows ==
    /\ probe.fn = "windows" /\ ~probe.done
    /\ probe' = [probe EXCEPT
                    !.done = TRUE,
                    !.result = buildStageWindowsByPlayback(
                                   probe.in.totalCues, probe.in.stageSize,
                                   probe.in.currentIndex)]
    /\ UNCHANGED << initialized, enabled, url, currentVideoId, loadedTrackKey,
                    cues, translations, progress, lastError, pendingHint,
                    syncTimer, port, reconnectTimer, pendingBatches,
                    pendingResegments, posted, tasks, overlay >>

SpecWindows == InitWindows /\ [][ApplyWindows]_vars

WindowsDone == probe.fn = "windows" /\ probe.done

\* The windows of stageSize cues over [0, totalCues), in timeline order.
TimelineWindows(totalCues, size) ==
    [j \in 1..((totalCues + size - 1) \div size) |->
        [start |-> (j - 1) * size, end |-> Min(totalCues, j * size)]]

Clamp(v, lo, hi) == Max(lo, Min(v, hi))

\* C15: the result is the timeline windows rotated left by
\* floor(clamp(currentIndex, 0, totalCues-1) / stageSize): the window holding
\* the current index first, then the later windows in ascending order, then
\* the earlier ones in ascending order; (250, 100, 160) gives [100,200),
\* [200,250), [0,100).
C15_WindowsRotated ==
    (WindowsDone /\ probe.in.totalCues > 0 /\ probe.in.stageSize >= 1)
        => LET total == probe.in.totalCues
               size == probe.in.stageSize
               timeline == TimelineWindows(total, size)
               k == Clamp(probe.in.currentIndex, 0, total - 1) \div size
               res == probe.result
           IN  /\ res = SubSeq(timeline, k + 1, Len(timeline))
                          \o SubSeq(timeline, 1, k)
               /\ res[1].start <= Clamp(probe.in.currentIndex, 0, total - 1)
               /\ Clamp(probe.in.currentIndex, 0, total - 1) < res[1].end
               /\ \A i \in 1..(Len(res) - 1) :
                      \/ res[i + 1].start = res[i].end
                      \/ res[i].end = total /\ res[i + 1].start = 0
               /\ probe.in = [totalCues |-> 250, stageSize |-> 100,
                              currentIndex |-> 160]
                      => res = << [start |-> 100, end |-> 200],
                                  [start |-> 200, end |-> 250],
                                  [start |-> 0, end |-> 100] >>

C15_Witness ==
    /\ WindowsDone
    /\ probe.in = [totalCues |-> 7, stageSize |-> 2, currentIndex |-> 5]
    /\ probe.result = << [start |-> 4, end |-> 6], [start |-> 6, end |-> 7],
                         [start |-> 0, end |-> 2], [start |-> 2, end |-> 4] >>

Interval(w) == (w.start)..(w.end - 1)

\* C16: for every totalCues >= 0, stageSize and currentIndex the windows are
\* pairwise disjoint half-open intervals whose union is [0, totalCues), and
\* every window has stageSize cues (1 for a stageSize below 1) except
\* possibly the one that ends at totalCues.
C16_WindowsPartition ==
    WindowsDone
        => LET total == probe.in.totalCues
               size == Max(1, probe.in.stageSize)
               res == probe.result
           IN  /\ \A i \in 1..Len(res) : res[i].start < res[i].end
               /\ \A i, j \in 1..Len(res) :
                      i # j => Interval(res[i]) \cap Interval(res[j]) = {}
               /\ UNION {Interval(res[i]) : i \in 1..Len(res)} = 0..(total - 1)
               /\ \A i \in 1..Len(res) :
                      \/ res[i].end - res[i].start = size
                      \/ res[i].end = total /\ res[i].end - res[i].start < size
               /\ \A c \in 0..(total - 1) :
                      Cardinality({i \in 1..Len(res) : c \in Interval(res[i])}) = 1

C16_Witness ==
    /\ WindowsDone
    /\ probe.in = [totalCues |-> 7, stageSize |-> 3, currentIndex |-> 4]
    /\ Len(probe.result) = 3
    /\ probe.result[2] = [start |-> 6, end |-> 7]

\* C17: the windower does not fail on degenerate input: totalCues = 0 gives
\* the empty list, a currentIndex outside [0, totalCues) gives what the
\* nearest index inside gives, a stageSize below 1 gives what stageSize 1
\* gives, and a single window is returned as it is.
C17_WindowsDegenerate ==
    WindowsDone
        => LET total == probe.in.totalCues
               size == probe.in.stageSize
               index == probe.in.currentIndex
               res == probe.result
           IN  /\ total = 0 => res = <<>>
               /\ total > 0 =>
                      res = buildStageWindowsByPlayback(
                                total, size, Clamp(index, 0, total - 1))
               /\ size < 1 => res = buildStageWindowsByPlayback(total, 1, index)
               /\ (total > 0 /\ total <= Max(1, size))
                      => res = << [start |-> 0, end |-> total] >>
               /\ (total > 0 /\ index < 0) => res[1].start = 0
               /\ (total > 0 /\ index >= total) => res[1].end = total

C17_Witness ==
    /\ WindowsDone
    /\ probe.in = [totalCues |-> 5, stageSize |-> 0, currentIndex |-> 8]
    /\ Len(probe.result) = 5
    /\ probe.result[1] = [start |-> 4, end |-> 5]

\* ---------------------------------------------------- findCueByTime alone
RECURSIVE CueLists(_, _)
\* The cue lists of n cues from time lo on that the fetcher can deliver in
\* start order without overlap: start <= end for every cue (a positive
\* duration, capped at the next start) and end <= the next start.
CueLists(n, lo) ==
    IF n = 0 THEN {<<>>}
    ELSE UNION {UNION {{<<[start |-> st, end |-> en, text |-> <<"c">>]>> \o rest :
                          rest \in CueLists(n - 1, en)} :
                      en \in st..MaxTime} :
                  st \in lo..MaxTime}

FindInputs ==
    UNION {[cues : CueLists(n, 0), time : 0..(MaxTime + 1)] : n \in 0..MaxCues}

InitFind ==
    /\ InitProgram
    /\ url = None
    /\ \E in \in FindInputs :
           probe = [fn |-> "find", in |-> in, done |-> FALSE, result |-> -1]

ApplyFind ==
    /\ probe.fn = "find" /\ ~probe.done
    /\ probe' = [probe EXCEPT
                    !.done = TRUE,
                    !.result = findCueByTime(probe.in.cues, probe.in.time)]
    /\ UNCHANGED << initialized, enabled, url, currentVideoId, loadedTrackKey,
                    cues, translations, progress, lastError, pendingHint,
                    syncTimer, port, reconnectTimer, pendingBatches,
                    pendingResegments, posted, tasks, overlay >>

SpecFind == InitFind /\ [][ApplyFind]_vars

FindDone == probe.fn = "find" /\ probe.done

\* The indices of the cues whose span holds time t.
Holding(cs, t) ==
    {i \in 0..(Len(cs) - 1) : cs[i + 1].start <= t /\ t <= cs[i + 1].end}

\* C18: for a cue list sorted by start without overlap, findCueByTime(t)
\* returns the index of a cue with start <= t <= end whenever there is one,
\* and not-found exactly when there is none: t in a gap, before the first
\* start, after the last end, or the store empty.
C18_FindCueByTime ==
    FindDone
        => LET cs == probe.in.cues
               t == probe.in.time
           IN  /\ Holding(cs, t) # {} => probe.result \in Holding(cs, t)
               /\ Holding(cs, t) = {} <=> probe.result = -1
               /\ cs = <<>> => probe.result = -1

C18_Witness ==
    /\ FindDone
    /\ Len(probe.in.cues) = 4
    /\ probe.in.time = probe.in.cues[4].end
    /\ probe.in.cues[3].end < probe.in.time
    /\ probe.result = 3

\* ------------------------------------------------- playback synchronizer
\* `翻译失败：${this.lastError}` and this.pendingHint as display texts.
ErrorText(message) == << "failed: ", message >>
HintText(hint) == << hint >>

\* Variant: the tick clears last-error once it has shown it.
SyncTick_ClearsError(time) ==
    /\ syncTimer
    /\ lastError' = None
    /\ overlay' = [display |-> Hidden, beat |-> ~overlay.beat]
    /\ UNCHANGED << initialized, enabled, url, currentVideoId, loadedTrackKey,
                    cues, translations, progress, pendingHint, syncTimer,
                    port, reconnectTimer, pendingBatches, pendingResegments,
                    posted, tasks, probe >>

\* syncSubtitleByTime(), called by the interval startSync() set; time is
\* video.currentTime, -1 when there is no video element.
SyncTick(time) ==
    /\ syncTimer
    /\ overlay' =
           [beat |-> ~overlay.beat,
            display |->
               IF ~enabled \/ Len(cues) = 0 THEN Hidden
               ELSE IF time = -1 THEN Hidden
               ELSE LET found == findCueByTime(cues, time)
                    IN  IF found = -1 THEN Hidden
                        ELSE IF found \in DOMAIN translations
                        THEN Shown(translations[found])
                        ELSE IF lastError # None
                        THEN Shown(ErrorText(lastError))
                        ELSE Shown(HintText(pendingHint))]
    /\ UNCHANGED << initialized, enabled, url, currentVideoId, loadedTrackKey,
                    cues, translations, progress, lastError, pendingHint,
                    syncTimer, port, reconnectTimer, pendingBatches,
                    pendingResegments, posted, tasks, probe >>

NextSync ==
    \/ NextWith(1, FALSE)
    \/ \E time \in PlaybackTimes : SyncTick(time)

SpecSync == Init /\ [][NextSync]_vars

\* What a tick at playback time `time` is to display.
C19_Display(time) ==
    LET active == Holding(cues, time)
        index == CHOOSE i \in active : TRUE
    IN  IF active = {} THEN Hidden
        ELSE IF index \in DOMAIN translations THEN Shown(translations[index])
        ELSE IF lastError # None THEN Shown(ErrorText(lastError))
        ELSE Shown(HintText(pendingHint))

\* C19: on every tick, with no active cue the renderer is told to hide;
\* with an active cue that has a Translation Map entry that entry is shown,
\* also when last-error is set; with an active cue without an entry the
\* error message is shown if last-error is set and the pending hint
\* otherwise.
C19_TickDisplay ==
    [][\A time \in PlaybackTimes :
          SyncTick(time) => overlay'.display = C19_Display(time)]_vars

\* C20: a tick leaves the cue store, the Translation Map, the progress
\* counters and last-error as they are.
C20_TickReadsOnly ==
    [][(\E time \in PlaybackTimes : SyncTick(time))
          => UNCHANGED << cues, translations, progress, lastError >>]_vars

C20_Witness ==
    /\ overlay.display = Shown(ErrorText(ErrService))
    /\ lastError = ErrService
    /\ DOMAIN translations = {0, 1}
    /\ progress.translated = 2

\* ----------------------------------------------------------------- C21
\* C21: no synchronizer timer is active while translation is disabled,
\* also when a track load was awaiting its cue fetch at the time of the
\* disable. (this.syncTimer holds at most one timer: startSync stops the
\* one it finds before it sets the next.)
C21_NoTimerWhenDisabled == (initialized /\ ~enabled) => ~syncTimer

\* ----------------------------------------------------------------- C22
\* Task t's handleTrackPayload loads its cue set in this step.
Loads(t) == tasks[t].pc = "fetch" /\ tasks'[t].path # None

FreshProgress(n) == [total |-> n, translated |-> 0, inflight |-> 0, pending |-> n]

\* The state a load leaves at the run's first await, or at its return when
\* the run ends before one: the store holds the N fetched cues, the map is
\* empty, last-error is clear and the counters are {N, 0, 0, N}; the plain
\* run has by then claimed its first batch, and a run that found no port
\* has recorded that.
C22_AfterLoad(t) ==
    LET n == tasks'[t]
        N == Len(cues')
    IN  /\ cues' = VideoCues(tasks[t].videoId)
        /\ translations' = NoTranslations
        /\ n.outcome # "threw"
        /\ lastError' = IF n.outcome = "failed" THEN ErrNoPort ELSE None
        /\ progress' = IF n.pc = "batch" /\ n.path = "all"
                       THEN ClaimProgress(FreshProgress(N), N, Len(n.items))
                       ELSE FreshProgress(N)

\* C22: loading a cue set of N cues replaces the store and leaves, before
\* any step of the run it starts, an empty Translation Map, no last-error
\* and progress {total: N, translated: 0, inflight: 0, pending: N}; a
\* change of the video identity empties the cue store and the map.
C22_LoadResets ==
    [][/\ \A t \in TaskIds : Loads(t) => C22_AfterLoad(t)
       /\ currentVideoId' # currentVideoId
              => cues' = <<>> /\ translations' = NoTranslations]_vars

\* A run translated every cue of v1, translation was enabled again and the
\* same track has just been loaded a second time.
C22_Witness ==
    /\ Len(tasks) = 2
    /\ Completed(1) /\ tasks[1].videoId = "v1"
    /\ tasks[2].videoId = "v1" /\ tasks[2].pc = "resegment" /\ tasks[2].si = 1
    /\ translations = NoTranslations
    /\ progress = FreshProgress(5)

\* ----------------------------------------------------------------- C23
\* Task t's run returns or throws in this step.
RunEnds(t) ==
    /\ tasks[t].pc \in {"fetch", "resegment", "batch"}
    /\ tasks'[t].pc = "done" /\ tasks'[t].path # None

\* The re-segment request task t waits for is rejected in this step.
ResegmentRejected(t) ==
    \E q \in posted :
        /\ q.id[1] = t /\ q.id \in pendingResegments
        /\ TranslateError(q)

\* The batch request task t waits for is rejected in this step.
BatchRejected(t) ==
    \E q \in posted :
        /\ q.id[1] = t /\ q.id \in pendingBatches
        /\ TranslateError(q)

\* C23: no failure of the re-segment or batch service leaves a run as an
\* exception. A run ends by completion, cancellation or a recorded
\* failure; a rejected re-segment request leaves the run going on with the
\* identity ranges of its stage (unless it is cancelled or finds no port
\* for the batch); a rejected batch request ends the run with the
\* rejection's message as last-error.
C23_FailuresAreCaught ==
    [][\A t \in TaskIds :
          /\ RunEnds(t) =>
                 /\ tasks'[t].outcome \in {"completed", "cancelled", "failed"}
                 /\ tasks'[t].outcome = "failed"
                        => lastError' \in {ErrService, ErrNoPort}
          /\ ResegmentRejected(t) =>
                 \/ /\ tasks'[t].pc = "batch" /\ tasks'[t].fallback
                    /\ Len(tasks'[t].items) = StageCueCount(tasks[t])
                    /\ lastError' = lastError
                 \/ tasks'[t].pc = "done" /\ tasks'[t].outcome = "cancelled"
                 \/ /\ tasks'[t].pc = "done" /\ tasks'[t].outcome = "failed"
                    /\ ~port /\ lastError' = ErrNoPort
          /\ BatchRejected(t) =>
                 /\ tasks'[t].pc = "done" /\ tasks'[t].outcome = "failed"
                 /\ lastError' = ErrService]_vars

\* A run translated its first stage and was ended by the rejection of a
\* batch request of its second stage: the message is recorded, the claim
\* of the stage is given back.
C23_Witness ==
    \E t \in TaskIds :
        /\ tasks[t].pc = "done" /\ tasks[t].outcome = "failed"
        /\ tasks[t].path = "asr"
        /\ lastError = ErrService
        /\ progress = [total |-> 5, translated |-> 3, inflight |-> 0, pending |-> 2]

\* --------------------------------------------------- the re-segmenter alone
\* Longest cue slice and longest sentence list given to the re-segmenter.
MaxSegCues == 3
MaxSegSentences == 2

\* Cue texts as the fetcher delivers them (normalized, not empty): words
\* separated by a space, a single character, and words without a space of
\* 2 and of 5 characters.
SegTexts ==
    { <<"a", " ", "b">>, <<"c">>, <<"d", "e">>, <<"f", "g", "h", "i", "j">> }

\* Sentences a reply may carry for a slice: every run of consecutive cue
\* texts joined by a space, every cue text, a blank and a foreign word.
SegSentences(texts) ==
    {JoinWith(SubSeq(texts, i, j), <<" ">>) :
        i \in 1..Len(texts), j \in 1..Len(texts)}
    \cup SegTexts \cup {<<" ">>, <<"x">>}

\* The ways to cut n cues into consecutive groups, each as the sequence of
\* its groups' last cues (1-based), and the sentences of a cut: the texts
\* of each group joined by a space.
Cuts(n) ==
    {e \in SeqsUpTo(1..n, n) :
        /\ (n > 0) => (e # <<>> /\ e[Len(e)] = n)
        /\ \A j \in 1..(Len(e) - 1) : e[j] < e[j + 1]}

GroupStart(e, j) == IF j = 1 THEN 1 ELSE e[j - 1] + 1

SentencesOf(texts, e) ==
    [j \in 1..Len(e) |-> JoinWith(SubSeq(texts, GroupStart(e, j), e[j]), <<" ">>)]

\* Every list of up to MaxSegSentences such sentences, and every cut of
\* the slice (the unchanged segmentation among them).
SegInputs ==
    UNION {{[texts |-> texts, sentences |-> sentences] :
               sentences \in
                   SeqsUpTo(SegSentences(texts) \ {<<>>}, MaxSegSentences)
                   \cup {SentencesOf(texts, e) : e \in Cuts(Len(texts))}} :
           texts \in SeqsUpTo(SegTexts, MaxSegCues)}

\* The cues of a slice: cue i spans [2i, 2i + 1].
SegCues(texts) == [i \in 1..Len(texts) |-> MkCue(i - 1, texts[i])]

InitSegment ==
    /\ InitProgram
    /\ url = None
    /\ \E in \in SegInputs :
           probe = [fn |-> "segment", in |-> in, done |-> FALSE,
                    ranges |-> <<>>, orFallback |-> <<>>,
                    merged |-> <<>>, mergedOrFallback |-> <<>>]

ApplySegment ==
    /\ probe.fn = "segment" /\ ~probe.done
    /\ probe' = [probe EXCEPT
                    !.done = TRUE,
                    !.ranges = alignSentencesToRanges(probe.in.sentences,
                                                      probe.in.texts),
                    !.orFallback = mapSentencesToRangesOrFallback(
                                       probe.in.sentences, probe.in.texts),
                    !.merged = mapSentencesToCues(probe.in.sentences,
                                                  SegCues(probe.in.texts)),
                    !.mergedOrFallback = mapSentencesToCuesOrFallback(
                                             probe.in.sentences,
                                             SegCues(probe.in.texts))]
    /\ UNCHANGED << initialized, enabled, url, currentVideoId, loadedTrackKey,
                    cues, translations, progress, lastError, pendingHint,
                    syncTimer, port, reconnectTimer, pendingBatches,
                    pendingResegments, posted, tasks, overlay >>

SpecSegment == InitSegment /\ [][ApplySegment]_vars

SegmentDone == probe.fn = "segment" /\ probe.done

\* One range per cue, range i on cue i alone with the cue's text.
IsIdentity(ranges, texts) ==
    /\ Len(ranges) = Len(texts)
    /\ \A i \in 1..Len(texts) :
          /\ ranges[i].startIndex = i - 1
          /\ ranges[i].endIndex = i - 1
          /\ ranges[i].text = NormalizeText(texts[i])

\* One merged cue per cue, with the cue's start, end, duration and text.
ReproducesCues(merged, cs) ==
    /\ Len(merged) = Len(cs)
    /\ \A i \in 1..Len(cs) :
          /\ merged[i].start = cs[i].start
          /\ merged[i].end = cs[i].end
          /\ merged[i].duration = cs[i].end - cs[i].start
          /\ merged[i].text = cs[i].text

RangesOfCut(texts, e) ==
    [j \in 1..Len(e) |->
        [startIndex |-> GroupStart(e, j) - 1, endIndex |-> e[j] - 1,
         text |-> SentencesOf(texts, e)[j]]]

MergedOfCut(texts, e) ==
    [j \in 1..Len(e) |->
        [start |-> SegCues(texts)[GroupStart(e, j)].start,
         end |-> SegCues(texts)[e[j]].end,
         duration |-> SegCues(texts)[e[j]].end
                          - SegCues(texts)[GroupStart(e, j)].start,
         text |-> SentencesOf(texts, e)[j]]]

MergesAsCut(e) ==
    /\ probe.orFallback = RangesOfCut(probe.in.texts, e)
    /\ probe.merged = MergedOfCut(probe.in.texts, e)

\* C25: whenever each sentence is the space-joined text of a
\* consecutive group of cues and the groups cover the cue list in order,
\* each range spans exactly its group, with the sentence as its text, and
\* each merged cue runs from the start of the group's first cue to the end
\* of its last.
C25_MergingProperty ==
    SegmentDone
        => \A e \in Cuts(Len(probe.in.texts)) :
              probe.in.sentences = SentencesOf(probe.in.texts, e)
                  => MergesAsCut(e)

Monotonic(ranges, n) ==
    /\ \A i \in 1..Len(ranges) :
          /\ 0 <= ranges[i].startIndex
          /\ ranges[i].startIndex <= ranges[i].endIndex
          /\ ranges[i].endIndex < n
    /\ \A i \in 1..(Len(ranges) - 1) :
          ranges[i].endIndex < ranges[i + 1].startIndex

\* The ranges of the walk before the leftover merge.
Walked(in) ==
    AlignWalk(SelectNonEmpty([i \in 1..Len(in.sentences) |->
                                 NormalizeText(in.sentences[i])]),
              [i \in 1..Len(in.texts) |-> NormalizeText(in.texts[i])], 0, <<>>)

ExtendsLastOnly(ranges, walked) ==
    /\ Len(ranges) = Len(walked)
    /\ \A i \in 1..Len(ranges) :
          /\ ranges[i].startIndex = walked[i].startIndex
          /\ IF i < Len(ranges) THEN ranges[i] = walked[i]
             ELSE ranges[i].endIndex >= walked[i].endIndex

\* C27: the ranges of one re-segmentation call satisfy
\* 0 <= startIndex <= endIndex < slice length, are strictly increasing and
\* do not overlap; the leftover merge changes the last range only, and
\* only extends it.
C27_MonotonicIndices ==
    SegmentDone
        => /\ Monotonic(probe.ranges, Len(probe.in.texts))
           /\ Monotonic(probe.orFallback, Len(probe.in.texts))
           /\ ExtendsLastOnly(probe.ranges, Walked(probe.in))

C27_Witness ==
    /\ SegmentDone
    /\ probe.in.texts = << <<"f", "g", "h", "i", "j">>, <<"c">>, <<"c">> >>
    /\ probe.in.sentences = << <<"f", "g", "h", "i", "j">>, <<"c">> >>
    /\ probe.orFallback =
           << [startIndex |-> 0, endIndex |-> 0,
               text |-> <<"f", "g", "h", "i", "j">>],
              [startIndex |-> 1, endIndex |-> 2, text |-> <<"c", " ", "c">>] >>

\* ----------------------------------------------------------------- C28
\* Total unit count of normalized texts.
Units(texts) ==
    SumSeq([i \in 1..Len(texts) |-> UnitCount(NormalizeText(texts[i]))])

RangeTexts(ranges) == [i \in 1..Len(ranges) |-> ranges[i].text]

\* C28: when the unit count of the aligned ranges' texts is below 70% of
\* the unit count of the cue texts the identity ranges are returned; at or
\* above 70% the aligned ranges are.
C28_ValidityGuard ==
    SegmentDone
        => IF 10 * Units(RangeTexts(probe.ranges)) < 7 * Units(probe.in.texts)
           THEN IsIdentity(probe.orFallback, probe.in.texts)
           ELSE probe.orFallback = probe.ranges

\* Exactly 70%: 7 of 10 units.
C28_Witness ==
    /\ SegmentDone
    /\ probe.in.texts = << <<"f", "g", "h", "i", "j">>, <<"f", "g", "h", "i", "j">> >>
    /\ probe.in.sentences = << <<"f", "g", "h", "i", "j">>, <<"d", "e">> >>
    /\ probe.orFallback[2] =
           [startIndex |-> 1, endIndex |-> 1, text |-> <<"d", "e">>]

\* ----------------------------------------------------------------- C29
\* Every index of 0..n-1 lies in exactly one range.
CoversOnce(ranges, n) ==
    /\ ranges # <<>>
    /\ ranges[1].startIndex = 0
    /\ \A i \in 1..(Len(ranges) - 1) :
          ranges[i + 1].startIndex = ranges[i].endIndex + 1
    /\ ranges[Len(ranges)].endIndex = n - 1
    /\ \A k \in 0..(n - 1) :
          Cardinality({i \in 1..Len(ranges) :
                          ranges[i].startIndex <= k /\ k <= ranges[i].endIndex}) = 1

\* C29: for a non-empty slice and any sentence list the ranges of the
\* merge-or-fallback operation cover every cue index exactly once: the
\* first starts at 0, consecutive ranges are adjacent and the last ends at
\* the last index.
C29_RangesCoverSlice ==
    (SegmentDone /\ probe.in.texts # <<>>)
        => CoversOnce(probe.orFallback, Len(probe.in.texts))

\* The fragments run out at the first sentence: the second is dropped.
C29_Witness ==
    /\ SegmentDone
    /\ probe.in.texts = << <<"a", " ", "b">> >>
    /\ probe.in.sentences = << <<"a", " ", "b">>, <<"x">> >>
    /\ probe.orFallback =
           << [startIndex |-> 0, endIndex |-> 0, text |-> <<"a", " ", "b">>] >>

\* ----------------------------------------------------------------- C30
StagesDisjoint(stages) ==
    \A i, j \in 1..Len(stages) :
        i # j => Interval(stages[i]) \cap Interval(stages[j]) = {}

\* C30: within one run each stage window is processed at most once and
\* each cue index is covered by at most one dispatched batch item: a
\* re-segment request is always for a later stage of a list of disjoint
\* windows than the one before, and a batch reply is written over ranges
\* that are disjoint from one another and hold no entry yet.
C30_DispatchOnce ==
    [][\A t \in TaskIds :
          /\ (Issues(t) /\ tasks'[t].pc = "resegment")
                 => /\ tasks'[t].si > tasks[t].si
                    /\ StagesDisjoint(tasks'[t].stages)
          /\ (ReplyApplied(t) /\ tasks[t].path = "asr")
                 => \A b \in BatchRanges(t) :
                       /\ ((b.range.start)..(b.range.end))
                              \cap DOMAIN translations = {}
                       /\ \A c \in BatchRanges(t) :
                             c.item.id # b.item.id
                                 => ((b.range.start)..(b.range.end))
                                        \cap ((c.range.start)..(c.range.end)) = {}]_vars

\* The run began in the second window, translated it, and waits for the
\* second sub-batch of the first window.
C30_Witness ==
    \E t \in TaskIds :
        /\ tasks[t].pc = "batch" /\ tasks[t].path = "asr"
        /\ tasks[t].si = 2 /\ tasks[t].start = DEFAULT_SUBTITLE_BATCH_SIZE
        /\ DOMAIN translations = {0, 1, 3, 4}

\* ----------------------------------------------------------------- C31
\* C31: progress.translated never exceeds progress.total, on the staged
\* path and on the plain path, whatever the interleaving of disable and
\* enable, track reloads and outstanding batch replies.
C31_TranslatedWithinTotal == progress.translated <= progress.total

\* ----------------------------------------------------------------- C32
\* C32: once translation is disabled, inflight and pending stay 0 while
\* it stays disabled, also over the step in which a run that was
\* suspended on a request resumes and executes its cleanup.
C32_ZeroWhileDisabled ==
    [][\A t \in TaskIds :
          (/\ Running(tasks[t]) /\ Resumes(t)
           /\ ~enabled /\ ~enabled'
           /\ progress.inflight = 0 /\ progress.pending = 0)
              => (progress'.inflight = 0 /\ progress'.pending = 0)]_vars

\* ----------------------------------------------------------------- C33
\* Task t's run was started for an earlier video than the one whose cue
\* set is loaded now.
Superseded(t) ==
    /\ Running(tasks[t])
    /\ tasks[t].videoId # currentVideoId
    /\ Len(cues) > 0

\* C33: once a new cue set is loaded, a run started for an earlier video
\* changes neither progress.inflight, nor progress.pending, nor
\* last-error.
C33_CountersOwnedByCurrentRun ==
    [][\A t \in TaskIds :
          (Superseded(t) /\ Resumes(t))
              => /\ progress'.inflight = progress.inflight
                 /\ progress'.pending = progress.pending
                 /\ lastError' = lastError]_vars

\* ----------------------------------------------------------------- C34
\* The background answers a posted request.
Answer ==
    \E q \in posted :
        \/ \E present \in SUBSET (0..4) : BatchDone(q, present, TRUE)
        \/ ResegmentDone(q, TRUE)
        \/ TranslateError(q)

\* One call chain over a port that stays connected, every posted request
\* being answered in the end. Answer is enabled exactly when posted is not
\* empty (TranslateError(q) can be taken for every posted q and removes
\* it), so the last conjunct is WF_vars(Answer) written without ENABLED.
NextAnswered == NextWith(1, TRUE)
SpecAnswered ==
    /\ Init
    /\ [][NextAnswered]_vars
    /\ ([]<>(posted = {}) \/ []<><<Answer>>_vars)

\* C34: when every request a run issues is answered, resolved or
\* rejected, the run ends: a run suspended on a request reaches its end.
C34_RunTerminates ==
    \A t \in 1..MaxTasks :
        (t \in TaskIds /\ Running(tasks[t]))
            ~> (t \in TaskIds /\ tasks[t].pc = "done"
                   /\ tasks[t].outcome \in {"completed", "failed", "cancelled"})

\* A run that was cancelled after its first stage.
C34_Witness ==
    \E t \in TaskIds :
        /\ tasks[t].pc = "done" /\ tasks[t].outcome = "cancelled"
        /\ tasks[t].path = "asr"
        /\ progress.translated = 3
        /\ posted = {}

\* ---------------------------------------------------------------- C35
\* One call chain over a port that may disconnect, reconnect and be
\* disposed of.
NextTeardown == NextRun \/ Dispose
SpecTeardown == Init /\ [][NextTeardown]_vars

SuspendedOnRequest(t) ==
    /\ Running(tasks[t])
    /\ tasks[t].pc \in {"resegment", "batch"}

\* The request run t awaits can still be settled: it is in its pending
\* table and the worker still holds a port on which to answer it.  A run is
\* resumed from a request by handlePortMessage alone, so a suspended run
\* whose request cannot be settled never ends.
CanBeSettled(t) ==
    /\ tasks[t].requestId \in pendingBatches \cup pendingResegments
    /\ \E q \in posted : q.id = tasks[t].requestId

\* C35: every run suspended on a batch or re-segment request eventually
\* ends, even when the port disconnects or dispose() is called while the
\* request is outstanding: in every reachable state the request of a
\* suspended run can still be settled.
C35_SuspendedRunCanEnd ==
    \A t \in TaskIds : SuspendedOnRequest(t) => CanBeSettled(t)

\* ---------------------------------------------------------------- C36
\* A message in `posted` is unmatched when no request of its kind is
\* pending under its id.
Unmatched(q) ==
    \/ q.kind = "batch" /\ q.id \notin pendingBatches
    \/ q.kind = "resegment" /\ q.id \notin pendingResegments

MessageIds ==
    {<<t, si, start, kind>> :
        t \in TaskIds, si \in 1..2, start \in {0, DEFAULT_SUBTITLE_BATCH_SIZE},
        kind \in {"batch", "resegment"}}

\* The port delivers a message that answers no pending request of its
\* kind: a second answer to a settled request, a done message of the other
\* kind, or an id never issued. One such message is held at a time.
UnmatchedMessage(id, kind) ==
    LET q == [id |-> id, kind |-> kind]
    IN  /\ port
        /\ q \notin posted
        /\ Unmatched(q)
        /\ \A p \in posted : ~Unmatched(p)
        /\ posted' = posted \cup {q}
        /\ UNCHANGED << overlay, probe, initialized, enabled, url, currentVideoId,
                        loadedTrackKey, cues, translations, progress, lastError,
                        pendingHint, syncTimer, port, reconnectTimer,
                        pendingBatches, pendingResegments, tasks >>

NextMessages ==
    \/ NextWith(1, FALSE)
    \/ \E id \in MessageIds, kind \in {"batch", "resegment"} :
           UnmatchedMessage(id, kind)
SpecMessages == Init /\ [][NextMessages]_vars

\* Everything but the messages in flight.
programVars ==
    << overlay, initialized, enabled, url, currentVideoId, loadedTrackKey, cues,
       translations, progress, lastError, pendingHint, syncTimer, port,
       reconnectTimer, pendingBatches, pendingResegments, tasks >>

\* The step settles the request `id` and no other: it leaves both tables,
\* no other entry does, and the run that awaited it is the only one to move.
SettlesOnly(id) ==
    /\ pendingBatches \ pendingBatches' \subseteq {id}
    /\ pendingResegments \ pendingResegments' \subseteq {id}
    /\ id \notin pendingBatches' \cup pendingResegments'
    /\ tasks[id[1]].requestId = id
    /\ tasks'[id[1]] # tasks[id[1]]
    /\ \A t \in TaskIds : t # id[1] => tasks'[t] = tasks[t]

\* C36: a pending request is settled at most once and leaves its table
\* when settled. A batchDone settles only a pending batch, a resegmentDone
\* only a pending re-segment, an error the one pending request with its id;
\* a message that matches no pending request changes no state.
C36_SettledAtMostOnce ==
    [][\A q \in posted :
          /\ (\E present \in SUBSET (0..4) : BatchDone(q, present, FALSE))
                => IF q.id \in pendingBatches
                   THEN SettlesOnly(q.id) ELSE UNCHANGED programVars
          /\ ResegmentDone(q, FALSE)
                => IF q.id \in pendingResegments
                   THEN SettlesOnly(q.id) ELSE UNCHANGED programVars
          /\ TranslateError(q)
                => IF q.id \in pendingBatches \cup pendingResegments
                   THEN SettlesOnly(q.id) ELSE UNCHANGED programVars]_vars

\* The run has completed, every request it made settled once and gone from
\* the tables, and a second batchDone for its first batch is delivered.
C36_Witness ==
    \E t \in TaskIds :
        /\ tasks[t].pc = "done" /\ tasks[t].outcome = "completed"
        /\ progress.total > 0 /\ progress.translated = progress.total
        /\ pendingBatches = {} /\ pendingResegments = {}
        /\ posted = {[id |-> <<t, 1, 0, "batch">>, kind |-> "batch"]}

\* ---------------------------------------------------------------- C37
\* The background worker. Each request it receives is handled by its own
\* call of handleBatchTranslation or handleResegment, which advance from one
\* await to the next: the configuration read, the cache look-up of each
\* item, the completion service, the item-by-item fallback, the cache write
\* of each translated item. Items are named by their position; a result is
\* the set of items that have a translation.
MaxRequests == 2
MaxItems == 2

WorkerRequests == 1..MaxRequests

Idle ==
    [kind |-> "none", pc |-> "idle", n |-> 0, i |-> 0, finalResult |-> {},
     uncachedItems |-> <<>>, translated |-> {}, fallbackItems |-> <<>>]

\* The handler of request id moves to w, posting msgs (safePostMessage).
WorkerUpdate(id, w, msgs) ==
    /\ probe' = [probe EXCEPT !.reqs[id] = w, !.sent[id] = @ \o msgs]
    /\ UNCHANGED << programVars, posted >>

Finished(w) == [w EXCEPT !.pc = "done"]

RECURSIVE NextWithValue(_, _)
\* The first uncached item from position k on that has a translation, 0 when
\* there is none.
NextWithValue(w, k) ==
    IF k > Len(w.uncachedItems) THEN 0
    ELSE IF w.uncachedItems[k] \in w.translated THEN k
    ELSE NextWithValue(w, k + 1)

\* `for (const item of uncachedItems)` from position k: the next item with a
\* value enters finalResult and its cache write is awaited; past the last
\* one, batchDone is posted.
StoreFrom(id, w, k) ==
    LET j == NextWithValue(w, k)
    IN  IF j = 0
        THEN WorkerUpdate(id, Finished(w), <<"batchDone">>)
        ELSE WorkerUpdate(id, [w EXCEPT !.pc = "store", !.i = j,
                                        !.finalResult = @ \cup {w.uncachedItems[j]}],
                          <<>>)

\* port.onMessage: translate:batch with n items or translate:resegment with
\* n non-blank texts; the handler runs up to `await getUserConfig()`.
Receive(id, kind, n) ==
    /\ probe.reqs[id].pc = "idle"
    /\ WorkerUpdate(id, [Idle EXCEPT !.kind = kind, !.pc = "config", !.n = n], <<>>)

\* getUserConfig() returns, with or without an API key.
ConfigLoaded(id, hasKey) ==
    LET w == probe.reqs[id]
    IN  /\ w.pc = "config"
        /\ IF ~hasKey THEN WorkerUpdate(id, Finished(w), <<"error">>)
           ELSE IF w.kind = "resegment"
           THEN IF w.n = 0
                THEN WorkerUpdate(id, Finished(w), <<"resegmentDone">>)
                ELSE WorkerUpdate(id, [w EXCEPT !.pc = "completion"], <<>>)
           ELSE IF w.n = 0
                THEN WorkerUpdate(id, Finished(w), <<"batchDone">>)
                ELSE WorkerUpdate(id, [w EXCEPT !.pc = "cache", !.i = 0], <<>>)

\* getCachedTranslation(item i) returns a translation or none.
CacheAnswered(id, hit) ==
    LET w == probe.reqs[id]
        v == IF hit THEN [w EXCEPT !.finalResult = @ \cup {w.i}]
             ELSE [w EXCEPT !.uncachedItems = Append(@, w.i)]
    IN  /\ w.pc = "cache"
        /\ IF w.i + 1 < w.n
           THEN WorkerUpdate(id, [v EXCEPT !.i = w.i + 1], <<>>)
           ELSE IF Len(v.uncachedItems) = 0
           THEN WorkerUpdate(id, Finished(v), <<"batchDone">>)
           ELSE WorkerUpdate(id, [v EXCEPT !.pc = "completion"], <<>>)

\* Variant: the catch block of the batch handler posts the error and does
\* not return.
CompletionAnswered_FallsThrough(id, rejected, parsed, values) ==
    LET w == probe.reqs[id]
        missingItems == SelectSeq(w.uncachedItems, LAMBDA it : it \notin values)
    IN  /\ w.pc = "completion"
        /\ (rejected \/ ~parsed) => values = {}
        /\ rejected => ~parsed
        /\ IF rejected
           THEN WorkerUpdate(id, Finished(w),
                             IF w.kind = "resegment" THEN <<"error">>
                             ELSE <<"error", "batchDone">>)
           ELSE IF w.kind = "resegment"
           THEN /\ values = {}
                /\ WorkerUpdate(id, Finished(w),
                                IF parsed THEN <<"resegmentDone">> ELSE <<"error">>)
           ELSE IF ~parsed
           THEN WorkerUpdate(id, [w EXCEPT !.pc = "fallback",
                                           !.fallbackItems = w.uncachedItems], <<>>)
           ELSE IF Len(missingItems) > 0
           THEN WorkerUpdate(id, [w EXCEPT !.pc = "fallback",
                                           !.translated = values,
                                           !.fallbackItems = missingItems], <<>>)
           ELSE StoreFrom(id, [w EXCEPT !.translated = values], 1)

\* nonStreamChatCompletion settles: rejected, or resolved with a text that
\* parses or not; `values` are the items the parsed object translates.
CompletionAnswered(id, rejected, parsed, values) ==
    LET w == probe.reqs[id]
        missingItems == SelectSeq(w.uncachedItems, LAMBDA it : it \notin values)
    IN  /\ w.pc = "completion"
        /\ (rejected \/ ~parsed) => values = {}
        /\ rejected => ~parsed
        /\ IF rejected THEN WorkerUpdate(id, Finished(w), <<"error">>)
           ELSE IF w.kind = "resegment"
           THEN /\ values = {}
                /\ WorkerUpdate(id, Finished(w),
                                IF parsed THEN <<"resegmentDone">> ELSE <<"error">>)
           ELSE IF ~parsed
           THEN WorkerUpdate(id, [w EXCEPT !.pc = "fallback",
                                           !.fallbackItems = w.uncachedItems], <<>>)
           ELSE IF Len(missingItems) > 0
           THEN WorkerUpdate(id, [w EXCEPT !.pc = "fallback",
                                           !.translated = values,
                                           !.fallbackItems = missingItems], <<>>)
           ELSE StoreFrom(id, [w EXCEPT !.translated = values], 1)

\* fallbackBatchBySingle: the completion for its next item settles.
FallbackAnswered(id, rejected) ==
    LET w == probe.reqs[id]
        v == [w EXCEPT !.translated = @ \cup {Head(w.fallbackItems)},
                       !.fallbackItems = Tail(@)]
    IN  /\ w.pc = "fallback"
        /\ IF rejected THEN WorkerUpdate(id, Finished(w), <<"error">>)
           ELSE IF Len(v.fallbackItems) > 0 THEN WorkerUpdate(id, v, <<>>)
           ELSE StoreFrom(id, v, 1)

\* setCachedTranslation(item i) returns.
StoreAnswered(id) ==
    LET w == probe.reqs[id]
    IN  /\ w.pc = "store"
        /\ StoreFrom(id, w, w.i + 1)

\* The handler of request id resumes from the await it is suspended on.
WorkerStep(id) ==
    \/ \E hasKey \in BOOLEAN : ConfigLoaded(id, hasKey)
    \/ \E hit \in BOOLEAN : CacheAnswered(id, hit)
    \/ \E rejected, parsed \in BOOLEAN, values \in SUBSET (0..(MaxItems - 1)) :
           CompletionAnswered(id, rejected, parsed, values)
    \/ \E rejected \in BOOLEAN : FallbackAnswered(id, rejected)
    \/ StoreAnswered(id)

InitWorker ==
    /\ InitProgram
    /\ url = None
    /\ probe = [fn |-> "worker", reqs |-> [id \in WorkerRequests |-> Idle],
                sent |-> [id \in WorkerRequests |-> <<>>]]

NextWorker ==
    \/ \E id \in WorkerRequests, kind \in {"batch", "resegment"}, n \in 0..MaxItems :
           Receive(id, kind, n)
    \/ \E id \in WorkerRequests : WorkerStep(id)

\* Every awaited call of the worker (storage, completion service) returns.
SpecWorker ==
    /\ InitWorker
    /\ [][NextWorker]_vars
    /\ \A id \in WorkerRequests : WF_vars(WorkerStep(id))

Received(id) == probe.reqs[id].pc # "idle"

TerminalOf(kind) ==
    {"error", IF kind = "batch" THEN "batchDone" ELSE "resegmentDone"}

\* C37: for every translate:batch and translate:resegment request the
\* worker receives it posts exactly one terminal message with the request's
\* id, the done message of the request's kind or translate:error: never
\* two, none before the handler ends, and one eventually.
C37_ExactlyOneTerminal ==
    /\ [](\A id \in WorkerRequests :
             LET w == probe.reqs[id]
                 sent == probe.sent[id]
             IN  /\ Len(sent) <= 1
                 /\ Len(sent) = 1 <=> w.pc = "done"
                 /\ Len(sent) = 1 => sent[1] \in TerminalOf(w.kind))
    /\ \A id \in WorkerRequests :
          Received(id) ~> (Len(probe.sent[id]) = 1)

\* A batch of two items, one found in the cache and one translated by the
\* item-by-item fallback, answered with batchDone for both.
C37_Witness ==
    \E id \in WorkerRequests :
        LET w == probe.reqs[id]
        IN  /\ w.kind = "batch" /\ w.pc = "done" /\ w.n = 2
            /\ w.finalResult = {0, 1}
            /\ w.uncachedItems = <<1>> /\ w.translated = {1}
            /\ w.fallbackItems = <<>>
            /\ probe.sent[id] = <<"batchDone">>

\* ---------------------------------------------------------------- C38
\* The webpage PageTranslator. Its fields are held in probe: enabled, port
\* (connected or null), timer (a reconnect timeout is pending), observing
\* (the IntersectionObserver exists), tracked (also the keys of
\* elementTexts), queue, queued, translated, inflight (requestId ->
\* element), nextId (the next fresh request id), wire (the requests the
\* worker has still to answer on the current port) and connected (the
\* elements attached to the document). Every element is a candidate with a
\* text of its own.
DEFAULT_TRANSLATION_CONCURRENCY == 2
MaxElements == 3
MaxRequestIds == 5

Elements == 1..MaxElements

InflightElements(s) == {rq.element : rq \in s.inflight}

\* pruneDetachedElements()
pruneDetachedElements(s) ==
    LET detachedTracked == s.tracked \ s.connected
        keptInflight == {rq \in s.inflight : rq.element \in s.connected}
        changed == detachedTracked # {} \/ keptInflight # s.inflight
        gone == detachedTracked \cup (InflightElements(s) \ s.connected)
        tracked == s.tracked \ gone
        filteredQueue == SelectSeq(s.queue,
                                   LAMBDA e : e \in s.connected /\ e \in tracked)
    IN  IF ~changed THEN s
        ELSE [s EXCEPT !.tracked = tracked,
                       !.translated = @ \ gone,
                       !.inflight = keptInflight,
                       !.queue = filteredQueue,
                       !.queued = {filteredQueue[k] : k \in 1..Len(filteredQueue)}]

RECURSIVE Drain(_)
\* The while loop of processQueue.
Drain(s) ==
    IF Cardinality(s.inflight) < DEFAULT_TRANSLATION_CONCURRENCY /\ Len(s.queue) > 0
    THEN LET element == Head(s.queue)
             shifted == [s EXCEPT !.queue = Tail(@), !.queued = @ \ {element}]
         IN  IF element \notin s.tracked THEN Drain(shifted)
             ELSE Drain([shifted EXCEPT
                            !.inflight = @ \cup {[id |-> s.nextId, element |-> element]},
                            !.wire = @ \cup {s.nextId},
                            !.nextId = @ + 1])
    ELSE s

\* processQueue()
processQueue(s) ==
    IF ~s.enabled THEN s
    ELSE LET p == pruneDetachedElements(s)
         IN  IF ~p.port THEN p ELSE Drain(p)

\* scan(document)
scan(s) ==
    IF ~s.enabled \/ ~s.observing THEN s
    ELSE LET p == pruneDetachedElements(s)
         IN  [p EXCEPT !.tracked = @ \cup p.connected]

\* startObservers()
startObservers(s) ==
    IF s.observing THEN s ELSE scan([s EXCEPT !.observing = TRUE])

\* Variant: an element already in flight may be queued again.
enqueue_IgnoresInflight(s, element) ==
    IF ~s.enabled THEN s
    ELSE IF element \notin s.tracked THEN s
    ELSE IF element \in s.translated \cup s.queued THEN s
    ELSE processQueue([s EXCEPT !.queue = Append(@, element),
                                !.queued = @ \cup {element}])

\* enqueue(element)
enqueue(s, element) ==
    IF ~s.enabled THEN s
    ELSE IF element \notin s.tracked THEN s
    ELSE IF element \in s.translated \cup s.queued THEN s
    ELSE IF element \in InflightElements(s) THEN s
    ELSE processQueue([s EXCEPT !.queue = Append(@, element),
                                !.queued = @ \cup {element}])

PageUpdate(s) ==
    /\ probe' = s
    /\ UNCHANGED << programVars, posted >>

\* setEnabled(enabled)
PageSetEnabled(en) ==
    /\ probe.fn = "page"
    /\ PageUpdate(
          IF en
          THEN processQueue(scan(startObservers(
                   [probe EXCEPT !.enabled = TRUE, !.lastError = FALSE,
                                 !.port = TRUE])))
          ELSE [probe EXCEPT !.enabled = FALSE, !.lastError = FALSE,
                             !.observing = FALSE, !.queue = <<>>, !.queued = {},
                             !.translated = {}, !.inflight = {}, !.tracked = {}])

\* The IntersectionObserver reports an attached element: enqueue(element).
PageIntersect(element) ==
    /\ probe.fn = "page"
    /\ probe.observing
    /\ element \in probe.connected
    /\ probe.nextId + Len(probe.queue) < MaxRequestIds
    /\ PageUpdate(enqueue(probe, element))

\* handlePortMessage("translate:done")
PageDone(id) ==
    /\ probe.fn = "page"
    /\ id \in probe.wire
    /\ LET s == [probe EXCEPT !.wire = @ \ {id}]
           request == {rq \in s.inflight : rq.id = id}
       IN  PageUpdate(
             IF request = {} THEN s
             ELSE processQueue([s EXCEPT
                     !.translated = @ \cup {rq.element : rq \in request},
                     !.inflight = @ \ request]))

\* handlePortMessage("translate:error")
PageError(id) ==
    /\ probe.fn = "page"
    /\ id \in probe.wire
    /\ LET s == [probe EXCEPT !.wire = @ \ {id}]
           request == {rq \in s.inflight : rq.id = id}
       IN  PageUpdate(processQueue([s EXCEPT !.inflight = @ \ request,
                                             !.lastError = TRUE]))

\* port.onDisconnect
PageDisconnect ==
    /\ probe.fn = "page"
    /\ probe.port
    /\ PageUpdate([probe EXCEPT !.port = FALSE, !.wire = {},
                                !.timer = @ \/ probe.enabled])

\* The 300 ms timeout: connectPort(); processQueue().
PageReconnect ==
    /\ probe.fn = "page"
    /\ probe.timer
    /\ PageUpdate(processQueue([probe EXCEPT !.timer = FALSE, !.port = TRUE]))

\* dispose()
PageDispose ==
    /\ probe.fn = "page"
    /\ PageUpdate([probe EXCEPT !.observing = FALSE, !.port = FALSE, !.wire = {},
                                !.queue = <<>>, !.queued = {}, !.inflight = {}])

\* An element is removed from the document.
PageDetach(element) ==
    /\ probe.fn = "page"
    /\ element \in probe.connected
    /\ PageUpdate([probe EXCEPT !.connected = @ \ {element}])

\* After initialize(): the port is connected and, when enabled, the
\* observers are started.
InitPage ==
    /\ InitProgram
    /\ url = None
    /\ \E en \in BOOLEAN :
           probe = LET s == [fn |-> "page", enabled |-> en, port |-> TRUE,
                             timer |-> FALSE, observing |-> FALSE,
                             tracked |-> {}, queue |-> <<>>, queued |-> {},
                             translated |-> {}, inflight |-> {}, nextId |-> 1,
                             wire |-> {}, connected |-> Elements,
                             lastError |-> FALSE]
                   IN  IF en THEN startObservers(s) ELSE s

NextPage ==
    \/ \E en \in BOOLEAN : PageSetEnabled(en)
    \/ \E element \in Elements : PageIntersect(element)
    \/ \E id \in 1..MaxRequestIds : PageDone(id)
    \/ \E id \in 1..MaxRequestIds : PageError(id)
    \/ PageDisconnect
    \/ PageReconnect
    \/ PageDispose
    \/ \E element \in Elements : PageDetach(element)

SpecPage == InitPage /\ [][NextPage]_vars

\* C38: the number of in-flight requests never exceeds
\* DEFAULT_TRANSLATION_CONCURRENCY, and no element is in flight under two
\* request ids at once.
C38_InflightBounded ==
    probe.fn = "page" =>
        /\ Cardinality(probe.inflight) <= DEFAULT_TRANSLATION_CONCURRENCY
        /\ \A a, b \in probe.inflight : a.element = b.element => a.id = b.id

\* The limit is reached with an element waiting in the queue, after an
\* earlier request failed and its element was asked for again.
C38_Witness ==
    /\ probe.fn = "page"
    /\ Cardinality(probe.inflight) = DEFAULT_TRANSLATION_CONCURRENCY
    /\ Len(probe.queue) > 0
    /\ probe.port
    /\ probe.lastError
    /\ probe.nextId > DEFAULT_TRANSLATION_CONCURRENCY + 1

====
